---- MODULE Spec2Model ----
(***************************************************************************)
(* State-machine model of GeoPoint-Logger: the feature-collection          *)
(* navigation of GeospatialDataHandler, world-file parsing and transform   *)
(* construction, the CRS handling of MapVisualizer, and the MapCanvas of   *)
(* the rotation tool.                                                      *)
(*                                                                         *)
(* Numbers read from a world file are held as integer counts of half       *)
(* units (the value 1.0 is 2), so that 0.5*v is exact.                     *)
(***************************************************************************)
EXTENDS Integers, Sequences, FiniteSets, TLC

VARIABLES
    \* ---- GeospatialDataHandler (src/src/data_handler.py) ----
    gdf,             \* the GeoDataFrame: None or [isNone, len, crs]
    current_index,   \* navigation index
    dh_op,           \* name of the last handler call
    dh_arg,          \* index argument of the last call (0 when it has none)
    dh_ret,          \* its return value: "None", "True" or "False"
    dh_pre,          \* current_index before the last call
    dh_op2,          \* name of the call before the last one
    dh_pre2,         \* current_index before that call
    \* ---- the disk and the world-file functions (src/src/utils.py) ----
    sidecar,         \* the world file found for the image: None or its lines
    pw_ret,          \* last result of parse_world_file ("unset" before a call)
    lwf_ret,         \* last result of _load_world_file
    cgt_ret,         \* last result of create_geospatial_transform
    \* ---- GeospatialDataHandler: the image ----
    image_data,      \* pixel buffer: None or the image read
    image_dataset,   \* rasterio dataset: None or [transform, crs, ...]
    georef_image_path,
    lg_ret,          \* (success, message) of the last load_georef_image
    lg_call,         \* None or the last load_georef_image call
    \* ---- MapVisualizer (src/src/map_display.py) ----
    image_datas,     \* List of pixel buffers
    original_image_datas, \* the buffers the image settings are applied to
    image_datasets,  \* None or List of datasets, each None or a dataset
    image_filenames, \* None or List of file names
    image_visibility,\* file name -> visible, as a set of pairs
    mv_gdf,          \* MapVisualizer.gdf
    mv_current_index,\* MapVisualizer.current_index
    settings,        \* interpolation, brightness, contrast, saturation, threshold
    has_axes,        \* the figure has an axes
    limits,          \* x and y limits of that axes
    shown,           \* the images drawn on the axes, in drawing order
    plotted,         \* the vector layer drawn on the axes, or None
    mv_redrawn,      \* the last MapVisualizer call ran redraw
    mv_raised,       \* an exception left the last call
    to_crs_calls,    \* gdf.to_crs invocations of the last call
    to_crs_failed,   \* gdf.to_crs raised in the last call
    reproj_since_load, \* gdf.to_crs invocations since data was last set
    \* ---- MapCanvas of the rotation tool (src/scripts/utilities/test.py) ----
    image_artist,    \* None or the image on the axes
    shape_artists,   \* sequence of vector artists
    raster_bounds,   \* None or [left, bottom, right, top]
    center,          \* None or [x, y]: the rotation pivot
    rotation_deg,
    mc_gdf,          \* MapCanvas.gdf
    raster_crs,
    gdf_crs,
    extent,          \* None or [left, right, bottom, top]
    ax_limits,       \* view limits of MapCanvas.ax
    mc_raised,       \* an exception left the last MapCanvas call
    mc_op,           \* the last MapCanvas call
    \* ---- the world file search (utils.py, data_handler.py) ----
    listing,         \* os.listdir of the image's directory, in its order
    fwf_ret,         \* Unset or the last find_world_file call and result
    lws_ret,         \* the same for the search inside _load_world_file
    \* ---- MapVisualizer.zoom_to_point ----
    zoom_call,       \* None or the last zoom_to_point call
    \* ---- NavigationManager, WorkflowManager, ColumnAssignmentFeature ----
    columns,         \* gdf.columns: the attribute column names in order
    cells,           \* row -> the cell values of the row, one per column
    status_label,    \* text of the status label
    id_input,        \* text of the ID field
    current_zoom_level,
    has_table,       \* the table widget handed to WorkflowManager is an object
    selected_column, \* column_selector.currentText()
    data_input,      \* text of the data input of the column assignment
    pending,         \* editingFinished is emitted and not yet handled
    running,         \* no exception has left a slot
    widget_calls,    \* the calls the last handler made on the map widget
    written,         \* the cells written since Enter was pressed
    vw_op,           \* the last handler run
    \* ---- MainWindow of the rotation tool (src/scripts/utilities/test.py) ----
    spin,            \* spin.value(), degrees
    slider,          \* slider.value(), tenths of a degree
    rotation_calls,  \* set_rotation calls made while handling the last event
    mw_op            \* the last user event of the window

navVars == <<gdf, current_index, dh_op, dh_arg, dh_ret, dh_pre, dh_op2, dh_pre2>>

worldVars == <<sidecar, pw_ret, lwf_ret, cgt_ret>>

imageVars == <<image_data, image_dataset, georef_image_path, lg_ret, lg_call>>

mapDataVars == <<image_datas, original_image_datas, image_datasets,
                 image_filenames, mv_gdf, mv_current_index>>

figureVars == <<has_axes, limits, shown, plotted>>

mapCallVars == <<mv_redrawn, mv_raised, to_crs_calls, to_crs_failed,
                 reproj_since_load>>

mapVars == <<mapDataVars, image_visibility, settings, figureVars, mapCallVars>>

canvasVars == <<image_artist, shape_artists, raster_bounds, center,
                rotation_deg, mc_gdf, raster_crs, gdf_crs, extent, ax_limits,
                mc_raised, mc_op>>

searchVars == <<listing, fwf_ret, lws_ret>>

zoomVars == <<zoom_call>>

viewerVars == <<columns, cells, status_label, id_input, current_zoom_level,
                has_table, selected_column, data_input, pending, running,
                widget_calls, written, vw_op>>

toolVars == <<spin, slider, rotation_calls, mw_op>>

vars == <<navVars, worldVars, imageVars, mapVars, canvasVars, searchVars,
          zoomVars, viewerVars, toolVars>>

nonViewerVars == <<worldVars, imageVars, mapVars, canvasVars, searchVars,
                   zoomVars, toolVars>>

\* everything but the rotation tool's window and its canvas
nonToolVars == <<navVars, worldVars, imageVars, mapVars, searchVars, zoomVars,
                 viewerVars>>

nonNavVars == <<worldVars, imageVars, mapVars, canvasVars, searchVars, zoomVars,
    viewerVars, toolVars>>
nonWorldVars == <<navVars, imageVars, mapVars, canvasVars, searchVars, zoomVars,
    viewerVars, toolVars>>
nonImageVars == <<navVars, worldVars, mapVars, canvasVars, searchVars, zoomVars,
    viewerVars, toolVars>>
nonMapVars == <<navVars, worldVars, imageVars, canvasVars, searchVars, zoomVars,
    viewerVars, toolVars>>
nonCanvasVars == <<navVars, worldVars, imageVars, mapVars, searchVars, zoomVars,
    viewerVars, toolVars>>
nonSearchVars == <<navVars, worldVars, imageVars, mapVars, canvasVars, zoomVars,
    viewerVars, toolVars>>

-----------------------------------------------------------------------------
(* Bounds *)

MaxFeatures == 3

\* longest world file drawn (six values plus one extra or blank line)
MaxLines == 7

\* gdf.to_crs invocations followed between two loads
MaxReprojections == 2

-----------------------------------------------------------------------------
(* Values *)

None == [isNone |-> TRUE]

VectorCRSs == {"None", "EPSG:2039", "EPSG:4326"}

GeoDataFrame(n, crs) == [isNone |-> FALSE, len |-> n, crs |-> crs]


\* the index arguments a caller can pass: in range, negative, past the end
IndexArgs == -1 .. MaxFeatures

-----------------------------------------------------------------------------
(* GeospatialDataHandler: navigation *)

Init_nav ==
    /\ gdf = None
    /\ current_index = 0
    /\ dh_op = "init"
    /\ dh_arg = 0
    /\ dh_ret = "None"
    /\ dh_pre = 0
    /\ dh_op2 = "init"
    /\ dh_pre2 = 0

\* bookkeeping of the call history, shared by every handler call
Called(op, arg, ret) ==
    /\ dh_op' = op
    /\ dh_arg' = arg
    /\ dh_ret' = ret
    /\ dh_pre' = current_index
    /\ dh_op2' = dh_op
    /\ dh_pre2' = dh_pre

\* load_shapefile: gpd.read_file either raises (nothing assigned) or yields
\* a collection of n features; current_index is not touched.
load_shapefile(ok, n, crs) ==
    /\ IF ok
         THEN gdf' = GeoDataFrame(n, crs)
         ELSE gdf' = gdf
    /\ current_index' = current_index
    /\ Called("load_shapefile", 0, IF ok THEN "True" ELSE "False")
    /\ UNCHANGED nonNavVars

\* the test of set_current_index without its lower bound
set_current_index_below_len(index) ==
    /\ ~gdf.isNone
    /\ index < gdf.len

set_current_index_ok(index) ==
    /\ ~gdf.isNone
    /\ 0 <= index
    /\ index < gdf.len

set_current_index(index) ==
    /\ IF set_current_index_ok(index)
         THEN current_index' = index
         ELSE current_index' = current_index
    /\ gdf' = gdf
    /\ Called("set_current_index", index,
              IF set_current_index_ok(index) THEN "True" ELSE "False")
    /\ UNCHANGED nonNavVars

move_to_index(index) ==
    /\ IF set_current_index_ok(index)
         THEN current_index' = index
         ELSE current_index' = current_index
    /\ gdf' = gdf
    /\ Called("move_to_index", index,
              IF set_current_index_ok(index) THEN "True" ELSE "False")
    /\ UNCHANGED nonNavVars

\* the guard shared by move_next, move_previous and get_current_point
HasFeatures(g) == ~g.isNone /\ g.len > 0

move_next_index(g, i) == (i + 1) % g.len

move_next ==
    /\ IF HasFeatures(gdf)
         THEN current_index' = move_next_index(gdf, current_index)
         ELSE current_index' = current_index
    /\ gdf' = gdf
    /\ Called("move_next", 0, IF HasFeatures(gdf) THEN "True" ELSE "False")
    /\ UNCHANGED nonNavVars

move_previous_index(g, i) == (i - 1) % g.len

move_previous ==
    /\ IF HasFeatures(gdf)
         THEN current_index' = move_previous_index(gdf, current_index)
         ELSE current_index' = current_index
    /\ gdf' = gdf
    /\ Called("move_previous", 0, IF HasFeatures(gdf) THEN "True" ELSE "False")
    /\ UNCHANGED nonNavVars


-----------------------------------------------------------------------------
(* World files: text, parsing, transform construction (src/src/utils.py) *)

\* A line is a sequence of characters; a file is a sequence of lines.
\* The lines a sidecar is made of: a whitespace-only line, two numbers (one
\* with leading whitespace, one negative), zero, and a line that is no number.
BlankLine == <<" ">>
BadLine == <<"x">>
NumberLines == {<<"0">>, <<" ", "1">>, <<"-", "2">>}

File(lines) == [isNone |-> FALSE, lines |-> lines]

\* all sequences over S of length n
RECURSIVE SeqsOfLen(_, _)
SeqsOfLen(S, n) ==
    IF n = 0 THEN {<<>>}
    ELSE {Append(q, x) : q \in SeqsOfLen(S, n - 1), x \in S}

\* str.strip(): drop leading and trailing whitespace
RECURSIVE LStrip(_)
LStrip(s) == IF s # <<>> /\ Head(s) = " " THEN LStrip(Tail(s)) ELSE s

RECURSIVE RStrip(_)
RStrip(s) ==
    IF s # <<>> /\ s[Len(s)] = " " THEN RStrip(SubSeq(s, 1, Len(s) - 1)) ELSE s

Strip(s) == RStrip(LStrip(s))

Digits == {"0", "1", "2", "3", "4", "5", "6", "7", "8", "9"}

DigitValue(c) ==
    CASE c = "0" -> 0 [] c = "1" -> 1 [] c = "2" -> 2 [] c = "3" -> 3
      [] c = "4" -> 4 [] c = "5" -> 5 [] c = "6" -> 6 [] c = "7" -> 7
      [] c = "8" -> 8 [] c = "9" -> 9

RECURSIVE DecimalValue(_)
DecimalValue(s) ==
    IF s = <<>> THEN 0
    ELSE 10 * DecimalValue(SubSeq(s, 1, Len(s) - 1)) + DigitValue(s[Len(s)])

AllDigits(s) == s # <<>> /\ \A i \in 1 .. Len(s) : s[i] \in Digits

\* float(s) succeeds (on the literals this alphabet can spell: an optional
\* sign and decimal digits, with surrounding whitespace ignored)
IsFloat(s) ==
    LET t == Strip(s) IN
    /\ t # <<>>
    /\ IF Head(t) \in {"-", "+"} THEN AllDigits(Tail(t)) ELSE AllDigits(t)

\* float(s), in half units
FloatValue(s) ==
    LET t == Strip(s) IN
    IF Head(t) = "-" THEN 0 - 2 * DecimalValue(Tail(t))
    ELSE IF Head(t) = "+" THEN 2 * DecimalValue(Tail(t))
    ELSE 2 * DecimalValue(t)

\* [line.strip() for line in lines if line.strip()]
RECURSIVE NonEmptyLines(_)
NonEmptyLines(lines) ==
    IF lines = <<>> THEN <<>>
    ELSE IF Strip(Head(lines)) # <<>>
         THEN <<Strip(Head(lines))>> \o NonEmptyLines(Tail(lines))
         ELSE NonEmptyLines(Tail(lines))

Params(values) == [isNone |-> FALSE, values |-> values]

\* as ParseValues, but a line that is no float is skipped instead of ending
\* the parse
RECURSIVE ParseValuesSkipping(_, _, _)
ParseValuesSkipping(non_empty_lines, i, values) ==
    IF i > 6 THEN Params(values)
    ELSE IF IsFloat(non_empty_lines[i])
         THEN ParseValuesSkipping(non_empty_lines, i + 1,
                                  Append(values, FloatValue(non_empty_lines[i])))
         ELSE ParseValuesSkipping(non_empty_lines, i + 1, values)

\* the loop "for i in range(6)": i counts from 1 here; a line that is no
\* float returns None at once
RECURSIVE ParseValues(_, _, _)
ParseValues(non_empty_lines, i, values) ==
    IF i > 6 THEN Params(values)
    ELSE IF IsFloat(non_empty_lines[i])
         THEN ParseValues(non_empty_lines, i + 1,
                          Append(values, FloatValue(non_empty_lines[i])))
         ELSE None

\* parse_world_file: None when the file cannot be read
ParseWorldFile(file) ==
    IF file.isNone THEN None
    ELSE LET non_empty_lines == NonEmptyLines(file.lines) IN
         IF Len(non_empty_lines) >= 6
           THEN ParseValues(non_empty_lines, 1, <<>>)
           ELSE None

\* the same loop in GeospatialDataHandler._load_world_file
RECURSIVE LoadValues(_, _, _)
LoadValues(non_empty_lines, i, values) ==
    IF i > 6 THEN Params(values)
    ELSE IF IsFloat(non_empty_lines[i])
         THEN LoadValues(non_empty_lines, i + 1,
                         Append(values, FloatValue(non_empty_lines[i])))
         ELSE None

\* GeospatialDataHandler._load_world_file once the search has ended: no
\* world file found, or the file found is read and parsed
LoadWorldFile(file) ==
    IF file.isNone THEN None
    ELSE LET non_empty_lines == NonEmptyLines(file.lines) IN
         IF Len(non_empty_lines) >= 6
           THEN LoadValues(non_empty_lines, 1, <<>>)
           ELSE None

\* rasterio Affine(a, b, c, d, e, f): x = a*col + b*row + c,
\*                                    y = d*col + e*row + f
Affine(a, b, c, d, e, f) ==
    [isNone |-> FALSE, a |-> a, b |-> b, c |-> c, d |-> d, e |-> e, f |-> f]

\* t * (col, row)
AffineApply(t, col, row) ==
    [x |-> t.a * col + t.b * row + t.c, y |-> t.d * col + t.e * row + t.f]

\* 0.5 * v, for v in half units of an integer
Half(v) == v \div 2

\* create_geospatial_transform
CreateGeospatialTransform(params) ==
    LET pixel_width  == params.values[1]
        rotation_y   == params.values[2]
        rotation_x   == params.values[3]
        pixel_height == params.values[4]
        top_left_x_c == params.values[5]
        top_left_y_c == params.values[6]
        x0 == top_left_x_c - Half(pixel_width) - Half(rotation_y)
        y0 == top_left_y_c - Half(rotation_x) - Half(pixel_height)
    IN  Affine(pixel_width, rotation_y, x0, rotation_x, pixel_height, y0)

Unset == [isNone |-> TRUE, unset |-> TRUE]

Init_world(files) ==
    /\ sidecar \in files
    /\ pw_ret = Unset
    /\ lwf_ret = Unset
    /\ cgt_ret = Unset

parse_world_file ==
    /\ pw_ret' = ParseWorldFile(sidecar)
    /\ UNCHANGED <<sidecar, lwf_ret, cgt_ret>>
    /\ UNCHANGED nonWorldVars

load_world_file ==
    /\ lwf_ret' = LoadWorldFile(sidecar)
    /\ UNCHANGED <<sidecar, pw_ret, cgt_ret>>
    /\ UNCHANGED nonWorldVars

\* create_geospatial_transform, called with a parsed parameter tuple
create_geospatial_transform ==
    /\ ~pw_ret.isNone
    /\ cgt_ret' = CreateGeospatialTransform(pw_ret)
    /\ UNCHANGED <<sidecar, pw_ret, lwf_ret>>
    /\ UNCHANGED nonWorldVars


-----------------------------------------------------------------------------
(* GeospatialDataHandler.load_georef_image (src/src/data_handler.py) *)

\* The disk: "a.jpg" is the image the sidecar belongs to, "b.jpg" an image
\* without a world file, "bad.jpg" a file Image.open cannot read.
ReadableImages == {"a.jpg", "b.jpg", "c.jpg"}
ImagePaths == ReadableImages \cup {"bad.jpg"}

\* the channel values (uint8) of one pixel of a readable image
ChannelValues(path) ==
    IF path = "a.jpg" THEN <<0, 100, 255>> ELSE <<1, 128, 200>>

\* np.array(img): the pixels of a readable image, (height, width)
Pixels(path) ==
    IF path = "a.jpg"
      THEN [isNone |-> FALSE, of |-> path, width |-> 2, height |-> 1,
            values |-> ChannelValues(path)]
      ELSE [isNone |-> FALSE, of |-> path, width |-> 1, height |-> 2,
            values |-> ChannelValues(path)]

\* what _load_world_file's search ends with for an image: "a.jpg" and
\* "c.jpg" have world files (of the same content), "b.jpg" has none
SidecarFor(path) == IF path \in {"a.jpg", "c.jpg"} THEN sidecar ELSE None

\* the transform load_georef_image builds inline
LoadGeorefTransform(params) ==
    LET pixel_width  == params.values[1]
        rotation_y   == params.values[2]
        rotation_x   == params.values[3]
        pixel_height == params.values[4]
        top_left_x_c == params.values[5]
        top_left_y_c == params.values[6]
        x0 == top_left_x_c - Half(pixel_width) - Half(rotation_y)
        y0 == top_left_y_c - Half(rotation_x) - Half(pixel_height)
    IN  Affine(pixel_width, rotation_y, x0, rotation_x, pixel_height, y0)

\* memfile.open() of the dataset written from image_data with the profile
Dataset(pixels, transform) ==
    [isNone |-> FALSE, transform |-> transform, crs |-> "EPSG:2039",
     width |-> pixels.width, height |-> pixels.height, pixels |-> pixels.of]

Result(success, message) == [success |-> success, message |-> message]

\* a load_georef_image call: its argument and how each library call it
\* reached ended ("ok", "raised", or "skipped" when it was not reached)
Outcome(ok) == IF ok THEN "ok" ELSE "raised"

LoadCall(file_path, open, memfile, fallback) ==
    [isNone |-> FALSE, file_path |-> file_path, open |-> open,
     memfile |-> memfile, fallback |-> fallback]

Init_image ==
    /\ image_data = None
    /\ image_dataset = None
    /\ georef_image_path = "None"
    /\ lg_ret = Result(FALSE, <<"unset">>)
    /\ lg_call = None

\* the handler's image fields, with what a load_georef_image call returned
Loaded(data, dataset, path, ret, call) ==
    [image_data |-> data, image_dataset |-> dataset,
     georef_image_path |-> path, ret |-> ret, call |-> call]

\* the except branch of load_georef_image: Image.open again.  data_so_far
\* is image_data as the try block left it.
LoadFallback(self, file_path, fallback_ok, data_so_far, call) ==
    IF fallback_ok
      THEN Loaded(Pixels(file_path), None, file_path,
                  Result(TRUE, <<"Successfully loaded image (using fallback): ",
                                 file_path>>),
                  call)
      ELSE Loaded(data_so_far, self.image_dataset, self.georef_image_path,
                  Result(FALSE, <<"Error loading image: ", file_path>>),
                  call)

NoWorldFileDefaultTransform(file_path, call) ==
    Loaded(Pixels(file_path),
           Dataset(Pixels(file_path), Affine(2, 0, 0, 0, 2, 0)), file_path,
           Result(TRUE, <<"Successfully loaded image: ", file_path>>), call)

\* the else branch of load_georef_image: no world file parameters
NoWorldFile(file_path, call) ==
    Loaded(Pixels(file_path), None, file_path,
           Result(TRUE, <<"Successfully loaded image: ", file_path>>), call)

\* load_georef_image(file_path) on a handler with fields self, when the
\* world file search ends with file.  open_ok: whether Image.open and
\* np.array succeed in the try block; memfile_ok: whether writing the
\* in-memory dataset succeeds; fallback_ok: whether Image.open succeeds in
\* the except block.
LoadGeorefImage(self, file_path, file, open_ok, memfile_ok, fallback_ok) ==
    LET params == LoadWorldFile(file) IN
    IF ~open_ok
      THEN LoadFallback(self, file_path, fallback_ok, self.image_data,
                        LoadCall(file_path, "raised", "skipped",
                                 Outcome(fallback_ok)))
    ELSE IF params.isNone
      THEN NoWorldFile(file_path,
                       LoadCall(file_path, "ok", "skipped", "skipped"))
    ELSE IF memfile_ok
      THEN Loaded(Pixels(file_path),
                  Dataset(Pixels(file_path), LoadGeorefTransform(params)),
                  file_path,
                  Result(TRUE, <<"Successfully loaded image: ", file_path>>),
                  LoadCall(file_path, "ok", "ok", "skipped"))
    ELSE LoadFallback(self, file_path, fallback_ok, Pixels(file_path),
                      LoadCall(file_path, "ok", "raised",
                               Outcome(fallback_ok)))

\* the handler's image fields
Self ==
    [image_data |-> image_data, image_dataset |-> image_dataset,
     georef_image_path |-> georef_image_path]

\* load_georef_image(file_path); a file that is no image is never opened
load_georef_image(file_path, open_ok, memfile_ok, fallback_ok) ==
    LET out == LoadGeorefImage(Self, file_path, SidecarFor(file_path),
                               open_ok, memfile_ok, fallback_ok)
    IN
    /\ file_path \notin ReadableImages => ~open_ok /\ ~fallback_ok
    /\ image_data' = out.image_data
    /\ image_dataset' = out.image_dataset
    /\ georef_image_path' = out.georef_image_path
    /\ lg_ret' = out.ret
    /\ lg_call' = out.call
    /\ UNCHANGED nonImageVars

\* rasterio's dataset.bounds: (left, bottom, right, top) of the footprint
DatasetBounds(dataset) ==
    LET t == dataset.transform
        corners == {AffineApply(t, col, row) :
                       col \in {0, dataset.width}, row \in {0, dataset.height}}
    IN  [isNone |-> FALSE,
         left |-> CHOOSE v \in {p.x : p \in corners} :
                     \A p \in corners : v <= p.x,
         bottom |-> CHOOSE v \in {p.y : p \in corners} :
                     \A p \in corners : v <= p.y,
         right |-> CHOOSE v \in {p.x : p \in corners} :
                     \A p \in corners : v >= p.x,
         top |-> CHOOSE v \in {p.y : p \in corners} :
                     \A p \in corners : v >= p.y]

get_image_bounds ==
    IF ~image_dataset.isNone THEN DatasetBounds(image_dataset) ELSE None

get_image_crs ==
    IF ~image_dataset.isNone
      THEN [isNone |-> FALSE, crs |-> image_dataset.crs] ELSE None


-----------------------------------------------------------------------------
(* MapVisualizer (src/src/map_display.py) *)

List(items) == [isNone |-> FALSE, items |-> items]

\* a georeferenced 2 x 2 image with square pixels of size 1, upper left
\* corner at (0, 2); halves as everywhere
MapTransform == Affine(2, 0, 0, 0, -2, 4)

MapPixels(name) ==
    [isNone |-> FALSE, of |-> name, width |-> 2, height |-> 2,
     values |-> ChannelValues(name)]

MapDataset(name, crs) ==
    [Dataset(MapPixels(name), MapTransform) EXCEPT !.crs = crs]

RasterArgs(datas, datasets, filenames) ==
    [image_datas |-> datas, image_datasets |-> datasets,
     image_filenames |-> filenames]

\* the arguments set_image_data is called with: no image; an unreferenced
\* image; a georeferenced one; one whose dataset has no CRS; an unreferenced
\* image followed by a georeferenced one; a georeferenced image passed
\* without file names (image_filenames keeps its default None)
RasterSets ==
    {RasterArgs(List(<<>>), List(<<>>), List(<<>>)),
     RasterArgs(List(<<MapPixels("a.jpg")>>), List(<<None>>),
                List(<<"a.jpg">>)),
     RasterArgs(List(<<MapPixels("a.jpg")>>),
                List(<<MapDataset("a.jpg", "EPSG:2039")>>), List(<<"a.jpg">>)),
     RasterArgs(List(<<MapPixels("a.jpg")>>),
                List(<<MapDataset("a.jpg", "None")>>), List(<<"a.jpg">>)),
     RasterArgs(List(<<MapPixels("a.jpg"), MapPixels("b.jpg")>>),
                List(<<None, MapDataset("b.jpg", "EPSG:2039")>>),
                List(<<"a.jpg", "b.jpg">>)),
     RasterArgs(List(<<MapPixels("a.jpg")>>),
                List(<<MapDataset("a.jpg", "EPSG:2039")>>), None)}

\* the collections set_geodataframe is called with
VectorSets ==
    {None, GeoDataFrame(0, "None")} \cup
    {GeoDataFrame(2, crs) : crs \in VectorCRSs}

\* the file names set_image_visibility is called with
FileNames == {"a.jpg"}

\* the indices set_current_index is called with: a feature, and past the end
MapIndexArgs == {0, 2}

\* the values the image-settings controls emit here: interpolation and
\* brightness change, the other sliders emit the value they stand at
InterpolationValues == {"nearest", "bilinear"}
BrightnessValues == {50, 60}
ContrastValues == {50}
SaturationValues == {50}
ThresholdValues == {0}

\* dict.get(filename, True) on the pairs of image_visibility
VisibilityGet(visibility, filename) ==
    IF \E p \in visibility : p[1] = filename
      THEN \E p \in visibility : p[1] = filename /\ p[2]
      ELSE TRUE

\* visibility[filename] = visible
VisibilitySet(visibility, filename, visible) ==
    {p \in visibility : p[1] # filename} \cup {<<filename, visible>>}

RECURSIVE VisibilitySetAll(_, _)
VisibilitySetAll(visibility, filenames) ==
    IF filenames = <<>> THEN visibility
    ELSE VisibilitySetAll(VisibilitySet(visibility, Head(filenames), TRUE),
                          Tail(filenames))

\* axes limits: those of a fresh axes, autoscaled to the artists drawn, or
\* set by set_xlim/set_ylim
DefaultLimits == [kind |-> "default"]
AutoLimits(artists) == [kind |-> "auto", artists |-> artists]
SetLimits(xlo, xhi, ylo, yhi) ==
    [kind |-> "set", xlo |-> xlo, xhi |-> xhi, ylo |-> ylo, yhi |-> yhi]

\* an artist added while autoscaling is on widens the limits to hold it
Autoscaled(lim, artist) ==
    IF lim.kind = "set" THEN lim
    ELSE IF lim.kind = "auto" THEN AutoLimits(lim.artists \cup {artist})
    ELSE AutoLimits({artist})

Min(S) == CHOOSE m \in S : \A v \in S : m <= v
Max(S) == CHOOSE m \in S : \A v \in S : m >= v

CornerLimitsOfDiagonal(t, w, h) ==
    LET corners_xy == {AffineApply(t, 0, 0), AffineApply(t, w, h)}
        xs == {c.x : c \in corners_xy}
        ys == {c.y : c \in corners_xy}
    IN  SetLimits(Min(xs), Max(xs), Min(ys), Max(ys))

\* the limits draw_image sets from the four mapped corners
CornerLimits(t, w, h) ==
    LET corners_xy == {AffineApply(t, 0, 0), AffineApply(t, w, 0),
                       AffineApply(t, w, h), AffineApply(t, 0, h)}
        xs == {c.x : c \in corners_xy}
        ys == {c.y : c \in corners_xy}
    IN  SetLimits(Min(xs), Max(xs), Min(ys), Max(ys))

\* img * contrast + brightness of _apply_image_settings for one channel
\* value, in fiftieths: contrast is the slider / 50.0, brightness is
\* (slider - 50) * 2
BrightnessContrast(v, brightness, contrast) ==
    v * contrast + ((brightness - 50) * 2) * 50

\* np.clip(img, 0, 255), in fiftieths
Clip(x) == IF x < 0 THEN 0 ELSE IF x > 255 * 50 THEN 255 * 50 ELSE x

\* astype(np.uint8) of a float given in fiftieths: the fraction is dropped
\* and eight bits are kept
Uint8(x) == (x \div 50) % 256

\* the brightness and contrast step applied to the former output instead
\* of the buffer handed in
AdjustShown(values, set) ==
    IF shown # <<>> /\ Len(shown[1].img.values) = Len(values)
      THEN [k \in 1..Len(values) |->
              Uint8(Clip(BrightnessContrast(shown[1].img.values[k],
                                            set.brightness, set.contrast)))]
      ELSE [k \in 1..Len(values) |->
              Uint8(Clip(BrightnessContrast(values[k], set.brightness,
                                            set.contrast)))]

\* the brightness and contrast step without np.clip
AdjustUnclipped(values, set) ==
    [k \in 1..Len(values) |->
        Uint8(BrightnessContrast(values[k], set.brightness, set.contrast))]

\* the brightness and contrast step of _apply_image_settings on a copy of
\* the buffer, and the conversion to uint8 that follows it
Adjust(values, set) ==
    IF set.brightness # 50 \/ set.contrast # 50
      THEN [k \in 1..Len(values) |->
              Uint8(Clip(BrightnessContrast(values[k], set.brightness,
                                            set.contrast)))]
      ELSE [k \in 1..Len(values) |-> Uint8(values[k] * 50)]

\* _apply_image_settings: the adjusted values; the saturation factor of
\* the HSV step when it ran (50 when it did not); the level of the
\* binary threshold when it ran (0 when it did not)
ApplyImageSettings(values, set) ==
    [values |-> Adjust(values, set),
     saturation |-> IF set.saturation # 50 THEN set.saturation ELSE 50,
     threshold |-> IF set.threshold > 0 THEN set.threshold ELSE 0]

\* ax.imshow(self.image_datas[i]): the buffer as it is
Unadjusted(values) == [values |-> values, saturation |-> 50, threshold |-> 0]

\* what imshow put on the axes
ShownImage(filename, pixels, set, georeferenced) ==
    [file |-> filename, of |-> pixels.of, settings |-> set,
     georeferenced |-> georeferenced,
     img |-> IF georeferenced THEN ApplyImageSettings(pixels.values, set)
             ELSE Unadjusted(pixels.values)]

Drawing(raised, images, lim) ==
    [raised |-> raised, shown |-> images, limits |-> lim]

\* the loop of draw_image from image i on; subscripting image_filenames
\* raises when it is None or too short
RECURSIVE DrawImageFrom(_, _, _, _)
DrawImageFrom(i, visibility, set, acc) ==
    IF i > Len(image_datasets.items) THEN acc
    ELSE IF image_filenames.isNone \/ i > Len(image_filenames.items)
      THEN Drawing(TRUE, acc.shown, acc.limits)
    ELSE LET filename == image_filenames.items[i]
             image_dataset_i == image_datasets.items[i]
         IN
         IF ~VisibilityGet(visibility, filename)
           THEN DrawImageFrom(i + 1, visibility, set, acc)
         ELSE IF ~image_dataset_i.isNone
           THEN DrawImageFrom(i + 1, visibility, set,
                  Drawing(FALSE,
                          Append(acc.shown,
                                 ShownImage(filename,
                                            original_image_datas.items[i],
                                            set, TRUE)),
                          CornerLimits(image_dataset_i.transform,
                                       image_datas.items[i].width,
                                       image_datas.items[i].height)))
         ELSE IF ~image_datas.items[i].isNone
           THEN DrawImageFrom(i + 1, visibility, set,
                  Drawing(FALSE,
                          Append(acc.shown,
                                 ShownImage(filename, image_datas.items[i],
                                            set, FALSE)),
                          Autoscaled(acc.limits, filename)))
         ELSE DrawImageFrom(i + 1, visibility, set, acc)

\* draw_image on a fresh axes
DrawImage(visibility, set) ==
    IF image_datasets.isNone \/ image_datasets.items = <<>>
      THEN Drawing(FALSE, <<>>, DefaultLimits)
      ELSE DrawImageFrom(1, visibility, set, Drawing(FALSE, <<>>, DefaultLimits))

\* the test of draw_shapefile line 211: a first dataset with a CRS
ImageHasCRS ==
    /\ ~image_datasets.isNone
    /\ image_datasets.items # <<>>
    /\ ~image_datasets.items[1].isNone
    /\ image_datasets.items[1].crs # "None"

\* the vector layer as plotted: in which CRS its coordinates are, and the
\* current point highlighted on it (-1: none)
Layer(g, crs, reprojected) ==
    [isNone |-> FALSE, len |-> g.len, crs |-> crs, reprojected |-> reprojected,
     current |-> IF 0 <= mv_current_index /\ mv_current_index < g.len
                   THEN mv_current_index ELSE -1]

Shapes(layer, calls, failed) ==
    [plotted |-> layer, to_crs_calls |-> calls, to_crs_failed |-> failed]

\* as DrawShapefile, without the test that the two CRSs differ
DrawShapefileEqualToo(to_crs_ok) ==
    IF ~HasFeatures(mv_gdf) THEN Shapes(None, 0, FALSE)
    ELSE IF ImageHasCRS
      THEN LET img_crs == image_datasets.items[1].crs IN
           IF mv_gdf.crs # "None"
             THEN IF to_crs_ok
                    THEN Shapes(Layer(mv_gdf, img_crs, TRUE), 1, FALSE)
                    ELSE Shapes(Layer(mv_gdf, mv_gdf.crs, FALSE), 1, TRUE)
             ELSE Shapes(Layer(mv_gdf, mv_gdf.crs, FALSE), 0, FALSE)
      ELSE Shapes(Layer(mv_gdf, mv_gdf.crs, FALSE), 0, FALSE)

\* as DrawShapefile, but a failed to_crs ends the drawing of the layer
DrawShapefileGivingUp(to_crs_ok) ==
    IF ~HasFeatures(mv_gdf) THEN Shapes(None, 0, FALSE)
    ELSE IF ImageHasCRS
      THEN LET img_crs == image_datasets.items[1].crs IN
           IF mv_gdf.crs # "None" /\ mv_gdf.crs # img_crs
             THEN IF to_crs_ok
                    THEN Shapes(Layer(mv_gdf, img_crs, TRUE), 1, FALSE)
                    ELSE Shapes(None, 1, TRUE)
             ELSE Shapes(Layer(mv_gdf, mv_gdf.crs, FALSE), 0, FALSE)
      ELSE Shapes(Layer(mv_gdf, mv_gdf.crs, FALSE), 0, FALSE)

\* draw_shapefile; to_crs_ok: whether gdf.to_crs succeeds when invoked
DrawShapefile(to_crs_ok) ==
    IF ~HasFeatures(mv_gdf) THEN Shapes(None, 0, FALSE)
    ELSE IF ImageHasCRS
      THEN LET img_crs == image_datasets.items[1].crs IN
           IF mv_gdf.crs # "None" /\ mv_gdf.crs # img_crs
             THEN IF to_crs_ok
                    THEN Shapes(Layer(mv_gdf, img_crs, TRUE), 1, FALSE)
                    ELSE Shapes(Layer(mv_gdf, mv_gdf.crs, FALSE), 1, TRUE)
             ELSE Shapes(Layer(mv_gdf, mv_gdf.crs, FALSE), 0, FALSE)
      ELSE Shapes(Layer(mv_gdf, mv_gdf.crs, FALSE), 0, FALSE)

Settings(i, b, c, s, t) ==
    [interpolation |-> i, brightness |-> b, contrast |-> c,
     saturation |-> s, threshold |-> t]

Init_map ==
    /\ image_datas = List(<<>>)
    /\ original_image_datas = List(<<>>)
    /\ image_datasets = List(<<>>)
    /\ image_filenames = List(<<>>)
    /\ image_visibility = {}
    /\ mv_gdf = None
    /\ mv_current_index = 0
    /\ settings = Settings("nearest", 50, 50, 50, 0)
    /\ has_axes = FALSE
    /\ limits = DefaultLimits
    /\ shown = <<>>
    /\ plotted = None
    /\ mv_redrawn = FALSE
    /\ mv_raised = FALSE
    /\ to_crs_calls = 0
    /\ to_crs_failed = FALSE
    /\ reproj_since_load = 0

\* a call that does not redraw
NotRedrawn ==
    /\ mv_redrawn' = FALSE
    /\ mv_raised' = FALSE
    /\ to_crs_calls' = 0
    /\ to_crs_failed' = FALSE
    /\ UNCHANGED figureVars

set_image_data(args) ==
    /\ original_image_datas' = args.image_datas
    /\ image_datas' = args.image_datas
    /\ image_datasets' = args.image_datasets
    /\ image_filenames' = args.image_filenames
    /\ image_visibility' =
          IF args.image_filenames.isNone THEN image_visibility
          ELSE VisibilitySetAll(image_visibility, args.image_filenames.items)
    /\ reproj_since_load' = 0
    /\ NotRedrawn
    /\ UNCHANGED <<mv_gdf, mv_current_index, settings>>
    /\ UNCHANGED nonMapVars

set_geodataframe(g) ==
    /\ mv_gdf' = g
    /\ reproj_since_load' = 0
    /\ NotRedrawn
    /\ UNCHANGED <<image_datas, original_image_datas, image_datasets,
                   image_filenames, image_visibility, mv_current_index,
                   settings>>
    /\ UNCHANGED nonMapVars

mv_set_current_index(index) ==
    /\ mv_current_index' = index
    /\ NotRedrawn
    /\ UNCHANGED <<image_datas, original_image_datas, image_datasets,
                   image_filenames, mv_gdf, image_visibility, settings,
                   reproj_since_load>>
    /\ UNCHANGED nonMapVars

\* redraw without putting the old limits back
RedrawKeepingDrawnLimits(visibility, set, to_crs_ok) ==
    LET image == DrawImage(visibility, set)
        shapes == DrawShapefile(to_crs_ok)
        drawn == IF shapes.plotted.isNone THEN image.limits
                 ELSE Autoscaled(image.limits, "gdf")
    IN
    /\ reproj_since_load < MaxReprojections
    /\ mv_redrawn' = TRUE
    /\ has_axes' = TRUE
    /\ shown' = image.shown
    /\ mv_raised' = image.raised
    /\ IF image.raised
         THEN /\ plotted' = None
              /\ limits' = image.limits
              /\ to_crs_calls' = 0
              /\ to_crs_failed' = FALSE
              /\ reproj_since_load' = reproj_since_load
         ELSE /\ plotted' = shapes.plotted
              /\ limits' = drawn
              /\ to_crs_calls' = shapes.to_crs_calls
              /\ to_crs_failed' = shapes.to_crs_failed
              /\ reproj_since_load' = reproj_since_load + shapes.to_crs_calls
    /\ UNCHANGED mapDataVars
    /\ UNCHANGED nonMapVars

\* redraw with the visibility and settings in force: the old limits are
\* read, the figure is cleared, images and shapes are drawn on a new axes
\* and the old limits are put back; an exception of draw_image ends it there
Redraw(visibility, set, to_crs_ok) ==
    LET image == DrawImage(visibility, set)
        shapes == DrawShapefile(to_crs_ok)
        drawn == IF shapes.plotted.isNone THEN image.limits
                 ELSE Autoscaled(image.limits, "gdf")
    IN
    /\ reproj_since_load < MaxReprojections
    /\ mv_redrawn' = TRUE
    /\ has_axes' = TRUE
    /\ shown' = image.shown
    /\ mv_raised' = image.raised
    /\ IF image.raised
         THEN /\ plotted' = None
              /\ limits' = image.limits
              /\ to_crs_calls' = 0
              /\ to_crs_failed' = FALSE
              /\ reproj_since_load' = reproj_since_load
         ELSE /\ plotted' = shapes.plotted
              /\ limits' = IF has_axes THEN limits ELSE drawn
              /\ to_crs_calls' = shapes.to_crs_calls
              /\ to_crs_failed' = shapes.to_crs_failed
              /\ reproj_since_load' = reproj_since_load + shapes.to_crs_calls
    /\ UNCHANGED mapDataVars
    /\ UNCHANGED nonMapVars

redraw(to_crs_ok) ==
    /\ Redraw(image_visibility, settings, to_crs_ok)
    /\ UNCHANGED <<image_visibility, settings>>

set_interpolation(interpolation, to_crs_ok) ==
    /\ settings' = [settings EXCEPT !.interpolation = interpolation]
    /\ Redraw(image_visibility, settings', to_crs_ok)
    /\ UNCHANGED image_visibility

set_brightness(value, to_crs_ok) ==
    /\ settings' = [settings EXCEPT !.brightness = value]
    /\ Redraw(image_visibility, settings', to_crs_ok)
    /\ UNCHANGED image_visibility

set_contrast(value, to_crs_ok) ==
    /\ settings' = [settings EXCEPT !.contrast = value]
    /\ Redraw(image_visibility, settings', to_crs_ok)
    /\ UNCHANGED image_visibility

set_saturation(value, to_crs_ok) ==
    /\ settings' = [settings EXCEPT !.saturation = value]
    /\ Redraw(image_visibility, settings', to_crs_ok)
    /\ UNCHANGED image_visibility

set_threshold(value, to_crs_ok) ==
    /\ settings' = [settings EXCEPT !.threshold = value]
    /\ Redraw(image_visibility, settings', to_crs_ok)
    /\ UNCHANGED image_visibility

set_image_visibility(filename, visible, to_crs_ok) ==
    /\ image_visibility' = VisibilitySet(image_visibility, filename, visible)
    /\ Redraw(image_visibility', settings, to_crs_ok)
    /\ UNCHANGED settings


-----------------------------------------------------------------------------
(* MapVisualizer.zoom_to_point (src/src/map_display.py) and
   calculate_zoom_range (src/src/utils.py).  Lengths, coordinates and zoom
   factors are in half units, as above. *)

\* a / b of two numbers in half units, exact for the operands used here
Divide(a, b) ==
    IF b > 0 THEN (2 * a) \div b ELSE 0 - ((2 * a) \div (0 - b))

CalculateZoomRangeUnclamped(base_range_x, base_range_y, zoom_factor, min_range) ==
    <<Divide(base_range_x, zoom_factor), Divide(base_range_y, zoom_factor)>>

\* calculate_zoom_range, for zoom_factor # 0
CalculateZoomRange(base_range_x, base_range_y, zoom_factor, min_range) ==
    LET xlim_range == Divide(base_range_x, zoom_factor)
        ylim_range == Divide(base_range_y, zoom_factor)
    IN  <<Max({xlim_range, min_range}), Max({ylim_range, min_range})>>

\* the zoom factors passed: 0.5, 1, 10, 1000, and 0 and -1
ZoomFactors == {1, 2, 20, 2000, 0, -2}

\* the points zoomed to
ZoomPoints == {[x |-> 0, y |-> 6], [x |-> -7, y |-> 0]}

ZoomCall(x, y, zoom_factor, raised, tick) ==
    [isNone |-> FALSE, x |-> x, y |-> y, zoom_factor |-> zoom_factor,
     raised |-> raised, tick |-> tick]

Init_zoom == zoom_call = None

\* zoom_to_point(x, y, zoom_factor): the division by a zoom factor of 0
\* raises ZeroDivisionError out of calculate_zoom_range
zoom_to_point(x, y, zoom_factor) ==
    LET base_range_x == 1000
        base_range_y == 1000
        ranges == CalculateZoomRange(base_range_x, base_range_y,
                                     zoom_factor, 2)
        xlim_range == ranges[1]
        ylim_range == ranges[2]
        tick == IF zoom_call.isNone THEN 0 ELSE 1 - zoom_call.tick
    IN
    /\ has_axes' = TRUE
    /\ IF zoom_factor = 0
         THEN /\ UNCHANGED limits
              /\ mv_raised' = TRUE
              /\ zoom_call' = ZoomCall(x, y, zoom_factor, TRUE, tick)
         ELSE /\ limits' = SetLimits(x - Half(xlim_range), x + Half(xlim_range),
                                     y - Half(ylim_range), y + Half(ylim_range))
              /\ mv_raised' = FALSE
              /\ zoom_call' = ZoomCall(x, y, zoom_factor, FALSE, tick)
    /\ mv_redrawn' = FALSE
    /\ to_crs_calls' = 0
    /\ to_crs_failed' = FALSE
    /\ UNCHANGED <<mapDataVars, image_visibility, settings, shown, plotted,
                   reproj_since_load>>
    /\ UNCHANGED <<navVars, worldVars, imageVars, canvasVars, searchVars,
                   viewerVars, toolVars>>


-----------------------------------------------------------------------------
(* MapCanvas (src/scripts/utilities/test.py) *)

Bounds(l, b, r, t) ==
    [isNone |-> FALSE, left |-> l, bottom |-> b, right |-> r, top |-> t]

\* what rasterio.open yields for the rasters on disk: bounds and CRS
Raster(b, crs) == [bounds |-> b, crs |-> crs]

Rasters ==
    {Raster(Bounds(0, 0, 40, 20), "EPSG:2039"),
     Raster(Bounds(20, 20, 60, 60), "EPSG:4326"),
     Raster(Bounds(0, 0, 40, 20), "None")}

\* what gpd.read_file yields for the vector files on disk
Vectors == {GeoDataFrame(2, crs) : crs \in VectorCRSs}

\* the angles the rotation controls emit
Angles == {0, 90, -90}

\* cos and sin of a multiple of 90 degrees
Cos(angle_deg) ==
    CASE angle_deg % 360 = 0 -> 1
      [] angle_deg % 360 = 180 -> -1
      [] OTHER -> 0

Sin(angle_deg) ==
    CASE angle_deg % 360 = 90 -> 1
      [] angle_deg % 360 = 270 -> -1
      [] OTHER -> 0

Point(x, y) == [isNone |-> FALSE, x |-> x, y |-> y]

\* rotate_points, on a set of points
rotate_points(cx, cy, pts, angle_deg) ==
    LET c == Cos(angle_deg)
        s == Sin(angle_deg)
    IN  {Point(c * (p.x - cx) - s * (p.y - cy) + cx,
               s * (p.x - cx) + c * (p.y - cy) + cy) : p \in pts}

\* an artist's transform: plain data coordinates, or
\* Affine2D().rotate_deg_around(cx, cy, angle) + transData
DataTransform == [kind |-> "data"]
RotatedTransform(cx, cy, angle_deg) ==
    [kind |-> "rotated", cx |-> cx, cy |-> cy, angle |-> angle_deg]

\* an artist: the CRS its coordinates are in, whether it is on the axes,
\* and its transform
Artist(crs, on_axes, transform) ==
    [isNone |-> FALSE, crs |-> crs, on_axes |-> on_axes,
     transform |-> transform]

\* view limits set by _autoscale_to_rotated_extent: the numbers below, each
\* moved outwards by eps * 1e-6
CanvasLimits(xlo, xhi, ylo, yhi) ==
    [kind |-> "set", xlo |-> xlo, xhi |-> xhi, ylo |-> ylo, yhi |-> yhi,
     eps |-> 1]

\* _apply_rotation_to_artists on one artist
WithRotation(artist, c, angle_deg) ==
    IF c.isNone \/ artist.isNone THEN artist
    ELSE [artist EXCEPT !.transform = RotatedTransform(c.x, c.y, angle_deg)]

ApplyRotationToArtists(artists, c, angle_deg) ==
    [i \in 1 .. Len(artists) |-> WithRotation(artists[i], c, angle_deg)]

\* 5% of a length (lengths here are multiples of 20)
Pad(length) == length \div 20

AutoscaleToUnrotatedExtent(rb, c, angle_deg, artists) ==
    IF rb.isNone
      THEN AutoLimits({artists[i].crs : i \in {j \in 1 .. Len(artists) :
                                                  artists[j].on_axes}})
      ELSE LET pad_x == Pad(rb.right - rb.left)
               pad_y == Pad(rb.top - rb.bottom)
           IN  CanvasLimits(rb.left - pad_x, rb.right + pad_x,
                            rb.bottom - pad_y, rb.top + pad_y)

\* _autoscale_to_rotated_extent
AutoscaleToRotatedExtent(rb, c, angle_deg, artists) ==
    IF rb.isNone
      THEN AutoLimits({artists[i].crs : i \in {j \in 1 .. Len(artists) :
                                                  artists[j].on_axes}})
      ELSE LET corners == {Point(rb.left, rb.bottom), Point(rb.left, rb.top),
                           Point(rb.right, rb.top), Point(rb.right, rb.bottom)}
               rcorners == rotate_points(c.x, c.y, corners, angle_deg)
               xs == {p.x : p \in rcorners}
               ys == {p.y : p \in rcorners}
               pad_x == Pad(Max(xs) - Min(xs))
               pad_y == Pad(Max(ys) - Min(ys))
           IN  CanvasLimits(Min(xs) - pad_x, Max(xs) + pad_x,
                            Min(ys) - pad_y, Max(ys) + pad_y)

\* ax.clear() takes every artist off the axes
OffAxes(artists) ==
    [i \in 1 .. Len(artists) |-> [artists[i] EXCEPT !.on_axes = FALSE]]

Init_canvas ==
    /\ image_artist = None
    /\ shape_artists = <<>>
    /\ raster_bounds = None
    /\ center = None
    /\ rotation_deg = 0
    /\ mc_gdf = None
    /\ raster_crs = "None"
    /\ gdf_crs = "None"
    /\ extent = None
    /\ ax_limits = DefaultLimits
    /\ mc_raised = FALSE
    /\ mc_op = "__init__"

ClearAll ==
    /\ image_artist' = None
    /\ shape_artists' = <<>>
    /\ raster_bounds' = None
    /\ center' = None
    /\ rotation_deg' = 0
    /\ mc_gdf' = None
    /\ raster_crs' = "None"
    /\ gdf_crs' = "None"
    /\ extent' = None
    /\ ax_limits' = DefaultLimits
    /\ mc_raised' = FALSE
    /\ mc_op' = "clear_all"

clear_all ==
    /\ ClearAll
    /\ UNCHANGED nonCanvasVars

\* set_raster(path): rasterio.open raises, or yields raster
SetRaster(ok, raster) ==
    /\ IF ~ok
         THEN /\ mc_raised' = TRUE
              /\ UNCHANGED <<image_artist, shape_artists, raster_bounds,
                             center, rotation_deg, mc_gdf, raster_crs,
                             gdf_crs, extent, ax_limits>>
         ELSE LET b == raster.bounds
                  c == Point((b.left + b.right) \div 2,
                             (b.bottom + b.top) \div 2)
              IN
              /\ extent' = [isNone |-> FALSE, left |-> b.left,
                            right |-> b.right, bottom |-> b.bottom,
                            top |-> b.top]
              /\ raster_bounds' = b
              /\ center' = c
              /\ raster_crs' = raster.crs
              /\ image_artist' =
                    WithRotation(Artist(raster.crs, TRUE, DataTransform),
                                 c, rotation_deg)
              /\ shape_artists' =
                    ApplyRotationToArtists(OffAxes(shape_artists), c,
                                           rotation_deg)
              /\ ax_limits' =
                    AutoscaleToRotatedExtent(b, c, rotation_deg, <<>>)
              /\ mc_raised' = FALSE
              /\ UNCHANGED <<rotation_deg, mc_gdf, gdf_crs>>
    /\ mc_op' = "set_raster"

set_raster(ok, raster) ==
    /\ SetRaster(ok, raster)
    /\ UNCHANGED nonCanvasVars

\* the test of set_shapefile line 133
NeedsReprojection(r_crs, g_crs) ==
    r_crs # "None" /\ g_crs # "None" /\ g_crs # r_crs

\* set_shapefile(path): gpd.read_file raises, or yields g; to_crs_ok:
\* whether gdf.to_crs succeeds when invoked
SetShapefile(ok, g, to_crs_ok) ==
    /\ IF ~ok
         THEN /\ mc_raised' = TRUE
              /\ UNCHANGED <<shape_artists, mc_gdf, gdf_crs, ax_limits>>
         ELSE /\ mc_gdf' = g
              /\ gdf_crs' = g.crs
              /\ IF NeedsReprojection(raster_crs, g.crs) /\ ~to_crs_ok
                   THEN /\ mc_raised' = TRUE
                        /\ UNCHANGED <<shape_artists, ax_limits>>
                   ELSE LET plot_crs ==
                                IF NeedsReprojection(raster_crs, g.crs)
                                  THEN raster_crs ELSE g.crs
                            artists ==
                                ApplyRotationToArtists(
                                    <<Artist(plot_crs, TRUE, DataTransform)>>,
                                    center, rotation_deg)
                        IN
                        /\ shape_artists' = artists
                        /\ ax_limits' =
                              AutoscaleToRotatedExtent(raster_bounds, center,
                                                       rotation_deg, artists)
                        /\ mc_raised' = FALSE
    /\ UNCHANGED <<image_artist, raster_bounds, center, rotation_deg,
                   raster_crs, extent>>
    /\ mc_op' = "set_shapefile"

set_shapefile(ok, g, to_crs_ok) ==
    /\ SetShapefile(ok, g, to_crs_ok)
    /\ UNCHANGED nonCanvasVars

SetRotation(angle_deg) ==
    /\ rotation_deg' = angle_deg
    /\ image_artist' = WithRotation(image_artist, center, angle_deg)
    /\ shape_artists' = ApplyRotationToArtists(shape_artists, center, angle_deg)
    /\ ax_limits' =
          AutoscaleToRotatedExtent(raster_bounds, center, angle_deg,
                                   shape_artists)
    /\ mc_raised' = FALSE
    /\ UNCHANGED <<raster_bounds, center, mc_gdf, raster_crs, gdf_crs, extent>>
    /\ mc_op' = "set_rotation"

set_rotation(angle_deg) ==
    /\ SetRotation(angle_deg)
    /\ UNCHANGED nonCanvasVars

-----------------------------------------------------------------------------
(* MainWindow of the rotation tool (src/scripts/utilities/test.py): the
   spin box (degrees, one decimal, -360.0 .. 360.0), the slider (tenths of
   a degree, -3600 .. 3600), Reset View and Clear.  A widget's setValue
   emits valueChanged when the value changes and its signals are not
   blocked; the slot connected to the signal runs inside setValue. *)

\* the controls and the canvas angle while one event is handled; calls
\* counts the MapCanvas.set_rotation calls
Controls(spin_value, slider_value, angle_deg, calls) ==
    [spin |-> spin_value, slider |-> slider_value, rotation_deg |-> angle_deg,
     calls |-> calls]

\* int(round(val * 10)) of a value with one decimal at most
SliderValueOf(val) == val * 10

\* sval / 10.0, for the slider positions on a whole degree
SpinValueOf(sval) == sval \div 10

\* on_angle_changed(val): the slider follows with its signals blocked,
\* then the canvas is rotated
OnAngleChanged(w, val) ==
    LET sval == SliderValueOf(val)
        w1 == IF w.slider # sval THEN [w EXCEPT !.slider = sval] ELSE w
    IN  [w1 EXCEPT !.rotation_deg = val, !.calls = @ + 1]

\* on_slider_changed(sval): the spin box follows with its signals blocked,
\* then the canvas is rotated
OnSliderChanged(w, sval) ==
    LET val == SpinValueOf(sval)
        w1 == IF w.spin # val THEN [w EXCEPT !.spin = val] ELSE w
    IN  [w1 EXCEPT !.rotation_deg = val, !.calls = @ + 1]

\* spin.setValue(val) with signals enabled
SpinSetValue(w, val) ==
    IF w.spin = val THEN w ELSE OnAngleChanged([w EXCEPT !.spin = val], val)

\* slider.setValue(sval) with signals enabled
SliderSetValue(w, sval) ==
    IF w.slider = sval
      THEN w
      ELSE OnSliderChanged([w EXCEPT !.slider = sval], sval)

Init_tool ==
    /\ spin = 0
    /\ slider = 0
    /\ rotation_calls = 0
    /\ mw_op = "__init__"

\* the controls and the canvas after an event whose slots left w
Rotated(w, op) ==
    /\ spin' = w.spin
    /\ slider' = w.slider
    /\ rotation_calls' = w.calls
    /\ mw_op' = op
    /\ IF w.calls = 0
         THEN UNCHANGED canvasVars
         ELSE SetRotation(w.rotation_deg)
    /\ UNCHANGED nonToolVars

\* the user turns the spin box to val
spin_valueChanged(val) ==
    /\ val # spin
    /\ Rotated(SpinSetValue(Controls(spin, slider, rotation_deg, 0), val),
               "spin")

\* the user drags the slider to sval
slider_valueChanged(sval) ==
    /\ sval # slider
    /\ Rotated(SliderSetValue(Controls(spin, slider, rotation_deg, 0), sval),
               "slider")

\* Reset View: spin.setValue(0.0), then the canvas is autoscaled again
reset_view ==
    LET w == SpinSetValue(Controls(spin, slider, rotation_deg, 0), 0)
    IN  /\ spin' = w.spin
        /\ slider' = w.slider
        /\ rotation_calls' = w.calls
        /\ mw_op' = "reset_view"
        /\ IF w.calls = 0
             THEN /\ ax_limits' =
                        AutoscaleToRotatedExtent(raster_bounds, center,
                                                 rotation_deg, shape_artists)
                  /\ UNCHANGED <<image_artist, shape_artists, raster_bounds,
                                 center, rotation_deg, mc_gdf, raster_crs,
                                 gdf_crs, extent, mc_raised, mc_op>>
             ELSE SetRotation(w.rotation_deg)
        /\ UNCHANGED nonToolVars

\* Clear: the button is connected to MapCanvas.clear_all itself
clear_clicked ==
    /\ ClearAll
    /\ rotation_calls' = 0
    /\ mw_op' = "clear"
    /\ UNCHANGED <<spin, slider>>
    /\ UNCHANGED nonToolVars

\* Open Raster...: a file is chosen; rasterio.open raises, or yields raster
open_raster(ok, raster) ==
    /\ SetRaster(ok, raster)
    /\ rotation_calls' = 0
    /\ mw_op' = "open_raster"
    /\ UNCHANGED <<spin, slider>>
    /\ UNCHANGED nonToolVars

\* Open Shapefile...: a file is chosen; gpd.read_file raises, or yields g
open_shapefile(ok, g, to_crs_ok) ==
    /\ SetShapefile(ok, g, to_crs_ok)
    /\ rotation_calls' = 0
    /\ mw_op' = "open_shapefile"
    /\ UNCHANGED <<spin, slider>>
    /\ UNCHANGED nonToolVars

-----------------------------------------------------------------------------
(* The world file search: find_world_file (src/src/utils.py) and the same
   search in GeospatialDataHandler._load_world_file.  Paths are sequences
   of characters; the image and the listed files share one directory on a
   case-sensitive file system. *)

MaxDirFiles == 2

LowerLetters ==
    <<"a", "b", "c", "d", "e", "f", "g", "h", "i", "j", "k", "l", "m",
      "n", "o", "p", "q", "r", "s", "t", "u", "v", "w", "x", "y", "z">>
UpperLetters ==
    <<"A", "B", "C", "D", "E", "F", "G", "H", "I", "J", "K", "L", "M",
      "N", "O", "P", "Q", "R", "S", "T", "U", "V", "W", "X", "Y", "Z">>

LowerChar(c) ==
    IF \E i \in 1 .. 26 : UpperLetters[i] = c
      THEN LowerLetters[CHOOSE i \in 1 .. 26 : UpperLetters[i] = c]
      ELSE c

UpperChar(c) ==
    IF \E i \in 1 .. 26 : LowerLetters[i] = c
      THEN UpperLetters[CHOOSE i \in 1 .. 26 : LowerLetters[i] = c]
      ELSE c

\* str.lower(), str.upper()
Lower(str) == [i \in 1 .. Len(str) |-> LowerChar(str[i])]
Upper(str) == [i \in 1 .. Len(str) |-> UpperChar(str[i])]

\* str.endswith(suffix)
EndsWith(str, suffix) ==
    /\ Len(suffix) <= Len(str)
    /\ SubSeq(str, Len(str) - Len(suffix) + 1, Len(str)) = suffix

\* os.path.splitext: the extension starts at the last dot, unless only dots
\* precede it
ExtStart(path) ==
    LET dots == {i \in 1 .. Len(path) : path[i] = "."} IN
    IF dots = {} THEN 0
    ELSE LET last == CHOOSE i \in dots : \A j \in dots : j <= i IN
         IF \A j \in 1 .. last - 1 : path[j] = "." THEN 0 ELSE last

SplitExtRoot(path) ==
    IF ExtStart(path) = 0 THEN path ELSE SubSeq(path, 1, ExtStart(path) - 1)

SplitExtExt(path) ==
    IF ExtStart(path) = 0 THEN <<>>
    ELSE SubSeq(path, ExtStart(path), Len(path))

\* the extensions tried by appending (utils.py:36), in order
AppendedExtensions ==
    <<<<".", "j", "g", "w">>,
      <<".", "j", "g", "w", "x">>,
      <<".", "j", "p", "g", "w">>,
      <<".", "p", "g", "w">>,
      <<".", "p", "g", "w", "x">>,
      <<".", "t", "f", "w">>,
      <<".", "t", "f", "w", "x">>,
      <<".", "w", "l", "d">>>>

\* the extensions of the directory scan (utils.py:53), in order
ScannedExtensions ==
    <<<<".", "j", "g", "w">>,
      <<".", "j", "g", "w", "x">>,
      <<".", "p", "g", "w">>,
      <<".", "p", "g", "w", "x">>,
      <<".", "t", "f", "w">>,
      <<".", "t", "f", "w", "x">>,
      <<".", "w", "l", "d">>>>

\* os.path.exists
Exists(path, files) == \E i \in 1 .. Len(files) : files[i] = path

Path(path) == [isNone |-> FALSE, path |-> path]

\* strategy 1: base_path + ext, then base_path + ext.upper(), for each
\* extension from the k-th on
RECURSIVE SearchByAppending(_, _, _)
SearchByAppending(base_path, files, k) ==
    IF k > Len(AppendedExtensions) THEN None
    ELSE LET ext == AppendedExtensions[k] IN
         IF Exists(base_path \o ext, files) THEN Path(base_path \o ext)
         ELSE IF Exists(base_path \o Upper(ext), files)
           THEN Path(base_path \o Upper(ext))
         ELSE SearchByAppending(base_path, files, k + 1)

\* ext.lower().lstrip('.')
LStripDots(str) ==
    IF str # <<>> /\ Head(str) = "." THEN Tail(str) ELSE str

\* the test of the scan on one listed file
ScanMatches(file, image_basename) ==
    /\ \E k \in 1 .. Len(ScannedExtensions) :
          EndsWith(Lower(file), LStripDots(Lower(ScannedExtensions[k])))
    /\ Lower(SplitExtRoot(file)) = Lower(image_basename)

\* strategy 2: the first listed file, from the k-th on, that matches
RECURSIVE SearchByScanning(_, _, _)
SearchByScanning(image_basename, files, k) ==
    IF k > Len(files) THEN None
    ELSE IF ScanMatches(files[k], image_basename) THEN Path(files[k])
    ELSE SearchByScanning(image_basename, files, k + 1)

\* find_world_file(image_path)
FindWorldFile(image_path, files) ==
    LET base_path == SplitExtRoot(image_path)
        world_file_path == SearchByAppending(base_path, files, 1)
    IN  IF world_file_path.isNone
          THEN SearchByScanning(SplitExtRoot(image_path), files, 1)
          ELSE world_file_path

\* the search of _load_world_file(image_path), up to line 163
LoadWorldFileSearch(image_path, files) ==
    LET base_path == SplitExtRoot(image_path)
        world_file_path == SearchByAppending(base_path, files, 1)
    IN  IF world_file_path.isNone
          THEN SearchByScanning(SplitExtRoot(image_path), files, 1)
          ELSE world_file_path

\* the files a directory may hold, and the images searched for
FileNamesOnDisk ==
    {<<"a", ".", "j", "g", "w">>,
     <<"a", ".", "J", "G", "W">>,
     <<"A", ".", "j", "g", "w">>,
     <<"a", ".", "J", "g", "w">>,
     <<"a", ".", "j", "p", "g", "w">>,
     <<"a", ".", "x", "j", "g", "w">>,
     <<"a", ".", "t", "x", "t">>,
     <<"b", ".", "j", "g", "w">>,
     <<"a", ".", "w", "l", "d">>,
     <<"a", ".", "j", "p", "g">>}

SearchedImages == {<<"a", ".", "j", "p", "g">>, <<"b", ".", "j", "p", "g">>}

Listings ==
    {files \in UNION {[1 .. n -> FileNamesOnDisk] : n \in 0 .. MaxDirFiles} :
        \A i, j \in 1 .. Len(files) : i # j => files[i] # files[j]}

SearchCall(image_path, ret) ==
    [isNone |-> FALSE, unset |-> FALSE, image_path |-> image_path, ret |-> ret]

Init_search(listings) ==
    /\ listing \in listings
    /\ fwf_ret = Unset
    /\ lws_ret = Unset

find_world_file(image_path) ==
    /\ fwf_ret' = SearchCall(image_path, FindWorldFile(image_path, listing))
    /\ UNCHANGED <<listing, lws_ret>>
    /\ UNCHANGED nonSearchVars

load_world_file_search(image_path) ==
    /\ lws_ret' = SearchCall(image_path,
                             LoadWorldFileSearch(image_path, listing))
    /\ UNCHANGED <<listing, fwf_ret>>
    /\ UNCHANGED nonSearchVars

-----------------------------------------------------------------------------
(* The viewer's classes: NavigationManager (src/src/main.py), WorkflowManager
   (src/src/workflow.py) and ColumnAssignmentFeature
   (src/src/column_assignment.py), working on the data handler.  The map
   widget, the table widget and update_map_func are handed to their
   constructors: the calls made on the map widget are recorded in
   widget_calls, and whether update_map_func returns is an input (the
   function main.py hands in, update_map_display, reads
   data_handler.image_loader, which GeospatialDataHandler does not have, and
   raises AttributeError after its first call).  An exception that leaves a
   slot ends the application (PyQt5 >= 5.15, no sys.excepthook installed). *)

\* rows of the attribute table of the collections loaded here
MaxRows == 2

\* str(k) for an integer k
DigitChars == <<"0", "1", "2", "3", "4", "5", "6", "7", "8", "9">>

RECURSIVE Str(_)
Str(k) ==
    IF k < 0 THEN <<"-">> \o Str(0 - k)
    ELSE IF k < 10 THEN <<DigitChars[k + 1]>>
    ELSE Str(k \div 10) \o <<DigitChars[(k % 10) + 1]>>

\* int(s) succeeds: surrounding whitespace, an optional sign, digits
IsInt(s) ==
    LET t == Strip(s) IN
    /\ t # <<>>
    /\ IF Head(t) \in {"-", "+"} THEN AllDigits(Tail(t)) ELSE AllDigits(t)

\* int(s)
IntValue(s) ==
    LET t == Strip(s) IN
    IF Head(t) = "-" THEN 0 - DecimalValue(Tail(t))
    ELSE IF Head(t) = "+" THEN DecimalValue(Tail(t))
    ELSE DecimalValue(t)

\* the attribute columns of the files read
ColumnSets ==
    {<< <<"I", "D">>, <<"N", "A", "M", "E">> >>,
     << <<"N", "A", "M", "E">>, <<"i", "d">> >>,
     << <<"N", "A", "M", "E">> >>}

\* the geometry of feature i: a point, in half units
PointOf(i) == [x |-> 2 * i, y |-> 6]

\* the zoom slider runs from MIN_ZOOM_LEVEL to MAX_ZOOM_LEVEL
MIN_ZOOM_LEVEL == 1
MAX_ZOOM_LEVEL == 20
DEFAULT_ZOOM_LEVEL == 5

\* the zoom_factor default of zoom_to_point, 2.0, in half units
DefaultZoomFactor == 4

WidgetCall(name, arg) == [name |-> name, arg |-> arg]

ZoomToPoint(i, zoom_factor) ==
    WidgetCall("zoom_to_point",
               [x |-> PointOf(i).x, y |-> PointOf(i).y,
                zoom_factor |-> zoom_factor])

Handler(name, arg, ret, pre, tick) ==
    [name |-> name, arg |-> arg, ret |-> ret, pre |-> pre, tick |-> tick]

Init_viewer(tables) ==
    /\ columns = <<>>
    /\ cells = <<>>
    /\ status_label = <<"Ready to load files">>
    /\ id_input = <<>>
    /\ current_zoom_level = DEFAULT_ZOOM_LEVEL
    /\ has_table \in tables
    /\ selected_column = <<>>
    /\ data_input = <<>>
    /\ pending = FALSE
    /\ running = TRUE
    /\ widget_calls = <<>>
    /\ written = <<>>
    /\ vw_op = Handler("__init__", None, "None", 0, 0)

\* a slot may be entered
Idle == running /\ ~pending

Handled(name, arg, ret) ==
    vw_op' = Handler(name, arg, ret, current_index, 1 - vw_op.tick)

\* load_shapefile with the attribute table of the file read
load_shapefile_table(n, cols) ==
    /\ Idle
    /\ gdf' = GeoDataFrame(n, "None")
    /\ current_index' = current_index
    /\ Called("load_shapefile", 0, "True")
    /\ columns' = cols
    /\ cells' = [row \in 0 .. n - 1 |-> [col \in 1 .. Len(cols) |-> None]]
    /\ widget_calls' = <<>>
    /\ Handled("load_shapefile", n, "True")
    /\ UNCHANGED <<status_label, id_input, current_zoom_level, has_table,
                   selected_column, data_input, pending, running, written>>
    /\ UNCHANGED nonViewerVars

\* a cell holding a text
Cell(text) == [isNone |-> FALSE, text |-> text]

\* str(current_value) if current_value is not None else ""
CellText(value) == IF value.isNone THEN <<>> ELSE value.text

IsColumn(name, cols) == \E i \in 1 .. Len(cols) : cols[i] = name

\* gdf.columns.get_loc(name), counted from 1
ColumnPosition(name, cols) == CHOOSE i \in 1 .. Len(cols) : cols[i] = name

\* the text update_input_with_current_value leaves in the data input
UpdateInputWithCurrentValue(selected, index, table, text) ==
    IF selected = <<>> THEN text
    ELSE IF gdf.isNone \/ gdf.len = 0 THEN text
    ELSE IF index < 0 \/ index >= gdf.len THEN text
    ELSE IF IsColumn(selected, columns)
      THEN CellText(table[index][ColumnPosition(selected, columns)])
    ELSE text

\* refresh_columns: the selector is cleared and filled, the first column
\* becomes the current text, and currentTextChanged refills the input
refresh_columns ==
    LET items == IF ~gdf.isNone /\ gdf.len > 0 THEN columns ELSE <<>>
        selected == IF items = <<>> THEN <<>> ELSE items[1]
    IN
    /\ Idle
    /\ selected_column' = selected
    /\ data_input' = UpdateInputWithCurrentValue(selected, current_index,
                                                 cells, data_input)
    /\ widget_calls' = <<>>
    /\ Handled("refresh_columns", None, "None")
    /\ UNCHANGED <<columns, cells, status_label, id_input, current_zoom_level,
                   has_table, pending, running, written>>
    /\ UNCHANGED <<navVars, nonViewerVars>>

\* zoom_level_changed, from the zoom slider
zoom_level_changed(value) ==
    /\ Idle
    /\ current_zoom_level' = value
    /\ widget_calls' = <<>>
    /\ Handled("zoom_level_changed", value, "None")
    /\ UNCHANGED <<columns, cells, status_label, id_input, has_table,
                   selected_column, data_input, pending, running, written>>
    /\ UNCHANGED <<navVars, nonViewerVars>>

\* the calls update_map_display makes before it returns or raises
UpdateMapDisplay(update_ok, index) ==
    IF update_ok
      THEN <<WidgetCall("set_geodataframe", None),
             WidgetCall("set_image_data", None),
             WidgetCall("set_current_index", index),
             WidgetCall("redraw", None)>>
      ELSE <<WidgetCall("set_geodataframe", None)>>

\* what a move of NavigationManager leaves behind once the data handler has
\* moved to index: the map is updated, the status is set, the ID field is
\* set by next_point and previous_point, the map is zoomed with zoom_level
\* and the data input is refilled
Navigated(update_ok, index, status, id_text, zoom_level) ==
    IF update_ok
      THEN [widget_calls |-> UpdateMapDisplay(TRUE, index)
                             \o <<ZoomToPoint(index, 2 * zoom_level)>>,
            status_label |-> status,
            id_input |-> id_text,
            data_input |-> UpdateInputWithCurrentValue(selected_column, index,
                                                       cells, data_input),
            running |-> TRUE]
      ELSE [widget_calls |-> UpdateMapDisplay(FALSE, index),
            status_label |-> status_label,
            id_input |-> id_input,
            data_input |-> data_input,
            running |-> FALSE]

NotNavigated ==
    [widget_calls |-> <<>>, status_label |-> status_label,
     id_input |-> id_input, data_input |-> data_input, running |-> TRUE]

\* NavigationManager.next_point and previous_point
NextPoint(update_ok, zoom_level) ==
    IF HasFeatures(gdf)
      THEN LET index == move_next_index(gdf, current_index)
           IN  [index |-> index, moved |-> TRUE] @@
               Navigated(update_ok, index, <<"Moved to point ", index>>,
                         Str(index), zoom_level)
      ELSE [index |-> current_index, moved |-> FALSE] @@ NotNavigated

PreviousPoint(update_ok, zoom_level) ==
    IF HasFeatures(gdf)
      THEN LET index == move_previous_index(gdf, current_index)
           IN  [index |-> index, moved |-> TRUE] @@
               Navigated(update_ok, index, <<"Moved to point ", index>>,
                         Str(index), zoom_level)
      ELSE [index |-> current_index, moved |-> FALSE] @@ NotNavigated

Apply(out) ==
    /\ current_index' = out.index
    /\ widget_calls' = out.widget_calls
    /\ status_label' = out.status_label
    /\ id_input' = out.id_input
    /\ data_input' = out.data_input
    /\ running' = out.running

\* the Next button: next_point(self.current_zoom_level)
next_point(update_ok) ==
    LET out == NextPoint(update_ok, current_zoom_level) IN
    /\ Idle
    /\ Apply(out)
    /\ gdf' = gdf
    /\ Called("move_next", 0, IF out.moved THEN "True" ELSE "False")
    /\ Handled("next_point", current_zoom_level, "None")
    /\ UNCHANGED <<columns, cells, current_zoom_level, has_table,
                   selected_column, pending, written>>
    /\ UNCHANGED nonViewerVars

\* the Previous button: previous_point(self.current_zoom_level)
previous_point(update_ok) ==
    LET out == PreviousPoint(update_ok, current_zoom_level) IN
    /\ Idle
    /\ Apply(out)
    /\ gdf' = gdf
    /\ Called("move_previous", 0, IF out.moved THEN "True" ELSE "False")
    /\ Handled("previous_point", current_zoom_level, "None")
    /\ UNCHANGED <<columns, cells, current_zoom_level, has_table,
                   selected_column, pending, written>>
    /\ UNCHANGED nonViewerVars

\* goto_id on the text of the ID field
GotoId(text, update_ok, zoom_level) ==
    IF ~IsInt(text)
      THEN [index |-> current_index, moved |-> "ValueError"] @@
           [NotNavigated EXCEPT
              !.status_label = <<"Please enter a valid integer index">>]
    ELSE LET target_id == IntValue(text) IN
         IF set_current_index_ok(target_id)
           THEN [index |-> target_id, moved |-> "True"] @@
                Navigated(update_ok, target_id,
                          <<"Navigated to index ", target_id>>, text,
                          zoom_level)
           ELSE [index |-> current_index, moved |-> "False"] @@
                [NotNavigated EXCEPT
                   !.status_label =
                       <<"Index ", target_id, " is out of range">>]

\* the user types text into the ID field and presses the Go to ID button:
\* goto_id(self.current_zoom_level)
goto_id(text, update_ok) ==
    LET out == GotoId(text, update_ok, current_zoom_level) IN
    /\ Idle
    /\ Apply([out EXCEPT !.id_input = text])
    /\ gdf' = gdf
    /\ IF out.moved = "ValueError"
         THEN UNCHANGED <<dh_op, dh_arg, dh_ret, dh_pre, dh_op2, dh_pre2>>
         ELSE Called("move_to_index", IntValue(text), out.moved)
    /\ Handled("goto_id", text, out.moved)
    /\ UNCHANGED <<columns, cells, current_zoom_level, has_table,
                   selected_column, pending, written>>
    /\ UNCHANGED nonViewerVars

\* gdf.iloc[row, col] = value
UpdateCellValue(table, row, col, value) ==
    [table EXCEPT ![row] = [@ EXCEPT ![col] = Cell(value)]]

HasColumnNamed(name, cols) ==
    \E i \in 1 .. Len(cols) : Upper(cols[i]) = Upper(name)

\* the first column whose upper-cased name is the upper-cased field name
IdColumn(name, cols) ==
    CHOOSE i \in 1 .. Len(cols) :
        /\ Upper(cols[i]) = Upper(name)
        /\ \A j \in 1 .. i - 1 : Upper(cols[j]) # Upper(name)

DEFAULT_ID_FIELD_NAME == <<"I", "D">>

Recorded(ret, raised, index, table, calls, status) ==
    [ret |-> ret, raised |-> raised, index |-> index, cells |-> table,
     widget_calls |-> calls, status_label |-> status]

\* NavigationCoordinator.move_to_next_point on a collection with features:
\* set_current_index and redraw, then zoom_to_current_point
MoveToNextPoint(index) ==
    <<WidgetCall("set_current_index", index), WidgetCall("redraw", None),
      WidgetCall("redraw", None), ZoomToPoint(index, DefaultZoomFactor)>>

\* WorkflowManager.record_id_for_current_point, with IDRecorder and
\* NavigationCoordinator; table tells whether the table widget is an object
RecordIdForCurrentPoint(id_value, table) ==
    IF gdf.isNone \/ gdf.len = 0
      THEN Recorded("False", FALSE, current_index, cells, <<>>,
                    <<"Please load a shapefile first">>)
    ELSE IF Strip(id_value) = <<>>
      THEN Recorded("False", FALSE, current_index, cells, <<>>,
                    <<"Please enter an ID value">>)
    ELSE IF ~HasColumnNamed(DEFAULT_ID_FIELD_NAME, columns)
      THEN Recorded("False", FALSE, current_index, cells, <<>>,
                    <<"No '", DEFAULT_ID_FIELD_NAME,
                      "' column found in data">>)
    ELSE IF current_index < 0 \/ current_index >= gdf.len
      THEN Recorded("raised", TRUE, current_index, cells, <<>>, status_label)
    ELSE LET stored == UpdateCellValue(cells, current_index,
                           IdColumn(DEFAULT_ID_FIELD_NAME, columns), id_value)
             index == move_next_index(gdf, current_index)
         IN  IF ~table
               THEN Recorded("raised", TRUE, current_index, stored, <<>>,
                             status_label)
               ELSE Recorded("True", FALSE, index, stored,
                             MoveToNextPoint(index),
                             <<"Recorded ID ", id_value, " for point ",
                               index - 1, ", moved to next point">>)

record_id_for_current_point(id_value) ==
    LET out == RecordIdForCurrentPoint(id_value, has_table) IN
    /\ Idle
    /\ current_index' = out.index
    /\ cells' = out.cells
    /\ widget_calls' = out.widget_calls
    /\ status_label' = out.status_label
    /\ running' = ~out.raised
    /\ gdf' = gdf
    /\ IF out.ret = "True"
         THEN Called("move_next", 0, "True")
         ELSE UNCHANGED <<dh_op, dh_arg, dh_ret, dh_pre, dh_op2, dh_pre2>>
    /\ Handled("record_id_for_current_point", id_value, out.ret)
    /\ UNCHANGED <<columns, id_input, current_zoom_level, has_table,
                   selected_column, data_input, pending, written>>
    /\ UNCHANGED nonViewerVars

\* the user picks a column in the selector: currentTextChanged
select_column(name) ==
    /\ Idle
    /\ IsColumn(name, columns)
    /\ selected_column' = name
    /\ data_input' = UpdateInputWithCurrentValue(name, current_index, cells,
                                                 data_input)
    /\ widget_calls' = <<>>
    /\ Handled("select_column", name, "None")
    /\ UNCHANGED <<columns, cells, status_label, id_input, current_zoom_level,
                   has_table, pending, running, written>>
    /\ UNCHANGED <<navVars, nonViewerVars>>

Assigned(wrote, table, index, calls, status, id_text, text, run) ==
    [wrote |-> wrote, cells |-> table, index |-> index,
     widget_calls |-> calls, status_label |-> status, id_input |-> id_text,
     data_input |-> text, running |-> run]

NotAssigned(status, text) ==
    Assigned(FALSE, cells, current_index, <<>>, status, id_input, text, TRUE)

\* assign_data_and_move_next(move_next) on the text of the data input;
\* next_point_requested is connected to next_point(self.current_zoom_level)
AssignDataAndMoveNext(text, move_next_arg, update_ok) ==
    IF gdf.isNone \/ gdf.len = 0
      THEN NotAssigned(<<"No data loaded">>, text)
    ELSE IF current_index < 0 \/ current_index >= gdf.len
      THEN NotAssigned(<<"Invalid index">>, text)
    ELSE IF selected_column = <<>>
      THEN NotAssigned(<<"Please select a column">>, text)
    ELSE IF ~IsColumn(selected_column, columns)
      THEN NotAssigned(<<"Column '", selected_column,
                         "' not found in current data">>, text)
    ELSE LET col == ColumnPosition(selected_column, columns)
             stored == UpdateCellValue(cells, current_index, col, Strip(text))
             message == <<"Assigned '", Strip(text), "' to column '",
                          selected_column, "' for point ", current_index>>
             index == move_next_index(gdf, current_index)
         IN  IF ~move_next_arg
               THEN Assigned(TRUE, stored, current_index, <<>>, message,
                             id_input, text, TRUE)
             ELSE IF ~update_ok
               THEN Assigned(TRUE, stored, index,
                             UpdateMapDisplay(FALSE, index), status_label,
                             id_input, text, FALSE)
             ELSE Assigned(TRUE, stored, index,
                           UpdateMapDisplay(TRUE, index)
                             \o <<ZoomToPoint(index, 2 * current_zoom_level)>>,
                           message \o <<", moved to next point">>,
                           Str(index),
                           CellText(stored[index][col]), TRUE)

ApplyAssigned(out) ==
    /\ cells' = out.cells
    /\ current_index' = out.index
    /\ widget_calls' = out.widget_calls
    /\ status_label' = out.status_label
    /\ id_input' = out.id_input
    /\ data_input' = out.data_input
    /\ running' = out.running
    /\ gdf' = gdf

\* the user types text into the data input and presses Enter: returnPressed
\* runs assign_data_and_move_next(), and editingFinished is still to come
return_pressed(text, update_ok) ==
    LET out == AssignDataAndMoveNext(text, TRUE, update_ok) IN
    /\ Idle
    /\ ApplyAssigned(out)
    /\ pending' = out.running
    /\ written' = IF out.wrote
                    THEN <<[row |-> current_index, column |-> selected_column]>>
                    ELSE <<>>
    /\ IF out.wrote
         THEN Called("move_next", 0, "True")
         ELSE UNCHANGED <<dh_op, dh_arg, dh_ret, dh_pre, dh_op2, dh_pre2>>
    /\ Handled("return_pressed", text, "None")
    /\ UNCHANGED <<columns, current_zoom_level, has_table, selected_column>>
    /\ UNCHANGED nonViewerVars

\* editingFinished, the second signal of the Enter key: save_current_data
editing_finished ==
    LET out == AssignDataAndMoveNext(data_input, FALSE, TRUE) IN
    /\ running /\ pending
    /\ ApplyAssigned(out)
    /\ pending' = FALSE
    /\ written' = IF out.wrote
                    THEN Append(written, [row |-> current_index,
                                          column |-> selected_column])
                    ELSE written
    /\ UNCHANGED <<dh_op, dh_arg, dh_ret, dh_pre, dh_op2, dh_pre2>>
    /\ Handled("editing_finished", data_input, "None")
    /\ UNCHANGED <<columns, current_zoom_level, has_table, selected_column>>
    /\ UNCHANGED nonViewerVars

-----------------------------------------------------------------------------
(* Specifications *)

\* every world file of at most MaxLines lines over these four lines
ParsedLines == {<<" ", "1">>, <<"-", "2">>, BlankLine, BadLine}

AllFiles ==
    {None} \cup
    {File(lines) : lines \in UNION {SeqsOfLen(ParsedLines, n) :
                                       n \in 0 .. MaxLines}}

\* the sidecars an image is loaded with: none, every six-number file, and
\* malformed ones (too short, a line that is no number)
SidecarFiles ==
    {None} \cup
    {File(lines) : lines \in SeqsOfLen(NumberLines, 6)} \cup
    {File(<<>>),
     File(<< <<"0">>, <<"0">>, <<"0">>, <<"0">>, <<"0">> >>),
     File(<< <<" ", "1">>, <<"0">>, BadLine, <<"-", "2">>, <<"0">>, <<"0">> >>)}

\* navigation of the feature collection
InitNav == Init_nav /\ Init_world({None}) /\ Init_image /\ Init_map /\ Init_canvas
       /\ Init_search({<<>>}) /\ Init_zoom /\ Init_viewer({FALSE}) /\ Init_tool

NextNav ==
    \/ \E ok \in BOOLEAN, n \in 0 .. MaxFeatures, crs \in VectorCRSs :
          load_shapefile(ok, n, crs)
    \/ \E index \in IndexArgs : set_current_index(index)
    \/ \E index \in IndexArgs : move_to_index(index)
    \/ move_next
    \/ move_previous

SpecNav == InitNav /\ [][NextNav]_vars

\* parsing, over every world file
InitWorld == Init_nav /\ Init_world(AllFiles) /\ Init_image /\ Init_map /\ Init_canvas
       /\ Init_search({<<>>}) /\ Init_zoom /\ Init_viewer({FALSE}) /\ Init_tool

NextWorld ==
    \/ parse_world_file
    \/ load_world_file

SpecWorld == InitWorld /\ [][NextWorld]_vars

\* transforms and image loading, over the sidecars; an image here is
\* readable or not, once and for all
InitImage == Init_nav /\ Init_world(SidecarFiles) /\ Init_image /\ Init_map /\ Init_canvas
       /\ Init_search({<<>>}) /\ Init_zoom /\ Init_viewer({FALSE}) /\ Init_tool

NextImage ==
    \/ parse_world_file
    \/ create_geospatial_transform
    \/ \E file_path \in {"a.jpg", "b.jpg", "bad.jpg"}, memfile_ok \in BOOLEAN :
          load_georef_image(file_path, file_path \in ReadableImages,
                            memfile_ok, file_path \in ReadableImages)

SpecImage == InitImage /\ [][NextImage]_vars

\* image loading alone, over fewer sidecars: none, the malformed ones, and
\* the six-number files that differ in their first three lines
LoadSidecars ==
    {f \in SidecarFiles :
        \/ f.isNone
        \/ Len(f.lines) # 6
        \/ f.lines[3] = BadLine
        \/ /\ f.lines[4] = <<"-", "2">>
           /\ f.lines[5] = <<"0">>
           /\ f.lines[6] = <<"0">>}

InitLoad ==
    /\ Init_nav /\ Init_world(LoadSidecars) /\ Init_image /\ Init_map
    /\ Init_canvas /\ Init_search({<<>>}) /\ Init_zoom /\ Init_viewer({FALSE}) /\ Init_tool

NextLoad ==
    \E file_path \in ImagePaths, open_ok \in BOOLEAN,
       memfile_ok \in BOOLEAN, fallback_ok \in BOOLEAN :
       load_georef_image(file_path, open_ok, memfile_ok, fallback_ok)

SpecLoad == InitLoad /\ [][NextLoad]_vars

\* the world file search, over the directory listings
InitSearch ==
    /\ Init_nav /\ Init_world({None}) /\ Init_image /\ Init_map /\ Init_canvas
    /\ Init_search(Listings) /\ Init_zoom /\ Init_viewer({FALSE}) /\ Init_tool

NextSearch ==
    \/ \E image_path \in SearchedImages : find_world_file(image_path)
    \/ \E image_path \in SearchedImages : load_world_file_search(image_path)

SpecSearch == InitSearch /\ [][NextSearch]_vars

\* the map display
InitMap == Init_nav /\ Init_world({None}) /\ Init_image /\ Init_map /\ Init_canvas
       /\ Init_search({<<>>}) /\ Init_zoom /\ Init_viewer({FALSE}) /\ Init_tool

NextMap ==
    \/ \E args \in RasterSets : set_image_data(args)
    \/ \E g \in VectorSets : set_geodataframe(g)
    \/ \E index \in MapIndexArgs : mv_set_current_index(index)
    \/ \E to_crs_ok \in BOOLEAN : redraw(to_crs_ok)
    \/ \E v \in InterpolationValues, to_crs_ok \in BOOLEAN :
          set_interpolation(v, to_crs_ok)
    \/ \E v \in BrightnessValues, to_crs_ok \in BOOLEAN :
          set_brightness(v, to_crs_ok)
    \/ \E v \in ContrastValues, to_crs_ok \in BOOLEAN :
          set_contrast(v, to_crs_ok)
    \/ \E v \in SaturationValues, to_crs_ok \in BOOLEAN :
          set_saturation(v, to_crs_ok)
    \/ \E v \in ThresholdValues, to_crs_ok \in BOOLEAN :
          set_threshold(v, to_crs_ok)
    \/ \E filename \in FileNames, visible \in BOOLEAN, to_crs_ok \in BOOLEAN :
          set_image_visibility(filename, visible, to_crs_ok)

SpecMap == InitMap /\ [][NextMap]_vars

\* drawing one georeferenced raster, over transforms with scale, rotation
\* and shear terms
DrawCoefficients == {-2, 0, 2}

DrawTransforms ==
    {Affine(a, b, 0, d, e, 0) :
        a \in DrawCoefficients, b \in DrawCoefficients,
        d \in DrawCoefficients, e \in DrawCoefficients}

DrawSets ==
    {RasterArgs(List(<<Pixels(name)>>),
                List(<<Dataset(Pixels(name), t)>>), List(<<name>>)) :
        name \in {"a.jpg"}, t \in DrawTransforms}

InitDraw ==
    /\ Init_nav /\ Init_world({None}) /\ Init_image /\ Init_map /\ Init_canvas
    /\ Init_search({<<>>}) /\ Init_zoom /\ Init_viewer({FALSE}) /\ Init_tool

NextDraw ==
    \/ \E args \in DrawSets : set_image_data(args)
    \/ \E to_crs_ok \in BOOLEAN : redraw(to_crs_ok)

SpecDraw == InitDraw /\ [][NextDraw]_vars

\* the image settings: the sliders of ImageSettingsPanel run over 0..100
\* (brightness, contrast, saturation) and 0..255 (threshold)
SliderValues == {0, 20, 50, 60, 100}

SaturationSliderValues == {0, 50, 100}

ThresholdSliderValues == {0, 128, 255}

SettingsSets ==
    {RasterArgs(List(<<MapPixels(name)>>),
                List(<<MapDataset(name, "EPSG:2039")>>), List(<<name>>)) :
        name \in {"a.jpg", "b.jpg"}}
    \cup {RasterArgs(List(<<MapPixels("a.jpg")>>), List(<<None>>),
                     List(<<"a.jpg">>))}

InitSettings ==
    /\ Init_nav /\ Init_world({None}) /\ Init_image /\ Init_map /\ Init_canvas
    /\ Init_search({<<>>}) /\ Init_zoom /\ Init_viewer({FALSE}) /\ Init_tool

NextSettings ==
    \/ \E args \in SettingsSets : set_image_data(args)
    \/ \E v \in SliderValues : set_brightness(v, TRUE)
    \/ \E v \in SliderValues : set_contrast(v, TRUE)
    \/ \E v \in SaturationSliderValues : set_saturation(v, TRUE)
    \/ \E v \in ThresholdSliderValues : set_threshold(v, TRUE)

SpecSettings == InitSettings /\ [][NextSettings]_vars

\* every cause of a redraw, and the zoom that sets a window in between
WindowSets ==
    {RasterArgs(List(<<>>), List(<<>>), List(<<>>)),
     RasterArgs(List(<<MapPixels("a.jpg")>>),
                List(<<MapDataset("a.jpg", "EPSG:2039")>>), List(<<"a.jpg">>)),
     RasterArgs(List(<<MapPixels("a.jpg")>>), List(<<None>>),
                List(<<"a.jpg">>)),
     RasterArgs(List(<<MapPixels("a.jpg")>>),
                List(<<MapDataset("a.jpg", "EPSG:2039")>>), None)}

InitWindow ==
    /\ Init_nav /\ Init_world({None}) /\ Init_image /\ Init_map /\ Init_canvas
    /\ Init_search({<<>>}) /\ Init_zoom /\ Init_viewer({FALSE}) /\ Init_tool

NextWindow ==
    \/ \E args \in WindowSets : set_image_data(args)
    \/ \E g \in {None, GeoDataFrame(1, "EPSG:2039")} : set_geodataframe(g)
    \/ \E index \in {0, 1} : mv_set_current_index(index)
    \/ redraw(TRUE)
    \/ \E v \in BrightnessValues : set_brightness(v, TRUE)
    \/ \E visible \in BOOLEAN : set_image_visibility("a.jpg", visible, TRUE)
    \/ \E zoom_factor \in {2, 20} : zoom_to_point(0, 6, zoom_factor)

SpecWindow == InitWindow /\ [][NextWindow]_vars

\* Go to ID and the direct moves of the data handler
IdTexts == {<<"1">>, <<"-", "1">>, <<" ", "2">>, <<"x">>}

ZoomLevels == {MIN_ZOOM_LEVEL, DEFAULT_ZOOM_LEVEL, MAX_ZOOM_LEVEL}

InitGoto ==
    /\ Init_nav /\ Init_world({None}) /\ Init_image /\ Init_map /\ Init_canvas
    /\ Init_search({<<>>}) /\ Init_zoom /\ Init_viewer({FALSE}) /\ Init_tool

NextGoto ==
    \/ \E n \in 0 .. MaxRows : load_shapefile_table(n, << <<"I", "D">> >>)
    \/ \E index \in -1 .. MaxRows : running /\ set_current_index(index)
    \/ \E index \in -1 .. MaxRows : running /\ move_to_index(index)
    \/ \E text \in IdTexts, update_ok \in BOOLEAN : goto_id(text, update_ok)

SpecGoto == InitGoto /\ [][NextGoto]_vars

\* recording IDs: the table widget is an object or, as in main.py, None
IdValues == {<<"7">>, <<"8", " ">>, <<" ">>, <<>>}

InitWorkflow ==
    /\ Init_nav /\ Init_world({None}) /\ Init_image /\ Init_map /\ Init_canvas
    /\ Init_search({<<>>}) /\ Init_zoom /\ Init_viewer(BOOLEAN) /\ Init_tool

NextWorkflow ==
    \/ \E n \in 0 .. MaxRows, cols \in ColumnSets :
          load_shapefile_table(n, cols)
    \/ \E id_value \in IdValues : record_id_for_current_point(id_value)

SpecWorkflow == InitWorkflow /\ [][NextWorkflow]_vars

\* every way of stepping through the features, and the zoom slider
InitSteps ==
    /\ Init_nav /\ Init_world({None}) /\ Init_image /\ Init_map /\ Init_canvas
    /\ Init_search({<<>>}) /\ Init_zoom /\ Init_viewer({TRUE}) /\ Init_tool

NextSteps ==
    \/ \E n \in 0 .. MaxRows : load_shapefile_table(n, << <<"I", "D">> >>)
    \/ \E value \in ZoomLevels : zoom_level_changed(value)
    \/ \E update_ok \in BOOLEAN : next_point(update_ok)
    \/ \E update_ok \in BOOLEAN : previous_point(update_ok)
    \/ \E update_ok \in BOOLEAN : goto_id(<<"1">>, update_ok)
    \/ record_id_for_current_point(<<"7">>)

SpecSteps == InitSteps /\ [][NextSteps]_vars

\* the column assignment: Enter in the data input
DataTexts == {<<"7">>, <<" ", "8">>}

InitAssign ==
    /\ Init_nav /\ Init_world({None}) /\ Init_image /\ Init_map /\ Init_canvas
    /\ Init_search({<<>>}) /\ Init_zoom /\ Init_viewer({FALSE}) /\ Init_tool

NextAssign ==
    \/ \E n \in 0 .. MaxRows, cols \in ColumnSets :
          load_shapefile_table(n, cols)
    \/ refresh_columns
    \/ \E cols \in ColumnSets, i \in 1 .. 2 :
          i <= Len(cols) /\ select_column(cols[i])
    \/ \E text \in DataTexts, update_ok \in BOOLEAN :
          return_pressed(text, update_ok)
    \/ editing_finished

SpecAssign == InitAssign /\ [][NextAssign]_vars

\* zooming the map display
InitZoom ==
    /\ Init_nav /\ Init_world({None}) /\ Init_image /\ Init_map /\ Init_canvas
    /\ Init_search({<<>>}) /\ Init_zoom /\ Init_viewer({FALSE}) /\ Init_tool

NextZoom ==
    \/ \E args \in RasterSets : set_image_data(args)
    \/ \E to_crs_ok \in BOOLEAN : redraw(to_crs_ok)
    \/ \E point \in ZoomPoints, zoom_factor \in ZoomFactors :
          zoom_to_point(point.x, point.y, zoom_factor)

SpecZoom == InitZoom /\ [][NextZoom]_vars

\* the canvas of the rotation tool
InitCanvas ==
    /\ Init_nav /\ Init_world({None}) /\ Init_image /\ Init_map /\ Init_canvas
    /\ Init_search({<<>>}) /\ Init_zoom /\ Init_viewer({FALSE}) /\ Init_tool

NextCanvas ==
    \/ clear_all
    \/ \E ok \in BOOLEAN, raster \in Rasters : set_raster(ok, raster)
    \/ \E ok \in BOOLEAN, g \in Vectors, to_crs_ok \in BOOLEAN :
          set_shapefile(ok, g, to_crs_ok)
    \/ \E angle_deg \in Angles : set_rotation(angle_deg)

SpecCanvas == InitCanvas /\ [][NextCanvas]_vars

\* the window of the rotation tool
SliderPositions == {SliderValueOf(a) : a \in Angles}

InitTool ==
    /\ Init_nav /\ Init_world({None}) /\ Init_image /\ Init_map /\ Init_canvas
    /\ Init_search({<<>>}) /\ Init_zoom /\ Init_viewer({FALSE}) /\ Init_tool

NextTool ==
    \/ \E val \in Angles : spin_valueChanged(val)
    \/ \E sval \in SliderPositions : slider_valueChanged(sval)
    \/ reset_view
    \/ clear_clicked
    \/ \E ok \in BOOLEAN, raster \in Rasters : open_raster(ok, raster)
    \/ \E ok \in BOOLEAN, g \in Vectors, to_crs_ok \in BOOLEAN :
          open_shapefile(ok, g, to_crs_ok)

SpecTool == InitTool /\ [][NextTool]_vars

-----------------------------------------------------------------------------
(* Claims: navigation *)

\* n applications of move_next_index
RECURSIVE MoveNextTimes(_, _, _)
MoveNextTimes(g, i, k) ==
    IF k = 0 THEN i ELSE MoveNextTimes(g, move_next_index(g, i), k - 1)

\* C1: whenever a non-empty feature collection is loaded, current_index
\* satisfies 0 <= current_index < len(gdf), also right after load_shapefile
\* replaced the collection by a smaller one.
C1_IndexInRange ==
    HasFeatures(gdf) => (0 <= current_index /\ current_index < gdf.len)

\* C2: with n >= 1 features, move_next sets the index to (i+1) mod n and
\* move_previous to (i-1) mod n, both returning True; move_next followed by
\* move_previous (and the reverse) restores i; n consecutive move_next calls
\* return to i; with no or an empty collection both return False and leave
\* the index unchanged.
C2_NextPrevious ==
    /\ (dh_op = "move_next" /\ HasFeatures(gdf)) =>
          (current_index = (dh_pre + 1) % gdf.len /\ dh_ret = "True")
    /\ (dh_op = "move_previous" /\ HasFeatures(gdf)) =>
          (current_index = (dh_pre - 1) % gdf.len /\ dh_ret = "True")
    /\ (dh_op2 = "move_next" /\ dh_op = "move_previous" /\ HasFeatures(gdf)) =>
          current_index = dh_pre2
    /\ (dh_op2 = "move_previous" /\ dh_op = "move_next" /\ HasFeatures(gdf)) =>
          current_index = dh_pre2
    /\ HasFeatures(gdf) =>
          MoveNextTimes(gdf, current_index, gdf.len) = current_index
    /\ (dh_op \in {"move_next", "move_previous"} /\ ~HasFeatures(gdf)) =>
          (current_index = dh_pre /\ dh_ret = "False")

-----------------------------------------------------------------------------
(* Claims: world files and transforms *)

\* the six values of the sidecar, in file order A, D, B, E, C, F
WorldValues == LoadWorldFile(sidecar).values

\* C3: the transform built from world-file values (A,D,B,E,C,F) has corner
\* origin (C - 0.5*A - 0.5*B, F - 0.5*D - 0.5*E), both in
\* create_geospatial_transform and in load_georef_image.
OriginAsSpecified(t, v) ==
    /\ t.c = v[5] - Half(v[1]) - Half(v[3])
    /\ t.f = v[6] - Half(v[2]) - Half(v[4])

C3_CornerOrigin ==
    /\ ~cgt_ret.isNone => OriginAsSpecified(cgt_ret, pw_ret.values)
    /\ ~image_dataset.isNone =>
          OriginAsSpecified(image_dataset.transform, WorldValues)

\* C4: the constructed transform maps pixel (col,row) to
\* x = A*col + B*row + x0 and y = D*col + E*row + y0, with D the second and
\* B the third line of the file.
PixelCoords == 0 .. 2

MapsAsSpecified(t, v) ==
    \A col \in PixelCoords, row \in PixelCoords :
        /\ AffineApply(t, col, row).x = v[1] * col + v[3] * row + t.c
        /\ AffineApply(t, col, row).y = v[2] * col + v[4] * row + t.f

C4_FileOrderCoefficients ==
    /\ ~cgt_ret.isNone => MapsAsSpecified(cgt_ret, pw_ret.values)
    /\ ~image_dataset.isNone =>
          MapsAsSpecified(image_dataset.transform, WorldValues)

\* C5: parsing is all-or-nothing: blank lines are discarded; None when fewer
\* than six non-blank lines remain or one of the first six is not a float;
\* otherwise exactly the six values of the first six non-blank lines, in
\* file order; lines after the sixth never change the result.
IsBlank(line) == Strip(line) = <<>>

NonBlank(lines) == SelectSeq(lines, LAMBDA line : ~IsBlank(line))

ParseAsSpecified(file) ==
    IF file.isNone THEN None
    ELSE LET nb == NonBlank(file.lines) IN
         IF Len(nb) < 6 \/ \E i \in 1 .. 6 : ~IsFloat(nb[i])
           THEN None
           ELSE Params([i \in 1 .. 6 |-> FloatValue(nb[i])])

\* the file without its last line, when six non-blank lines remain
HasSpareLine(file) ==
    /\ ~file.isNone
    /\ file.lines # <<>>
    /\ Len(NonBlank(SubSeq(file.lines, 1, Len(file.lines) - 1))) >= 6

WithoutLastLine(file) == File(SubSeq(file.lines, 1, Len(file.lines) - 1))

C5_ParseAllOrNothing ==
    /\ pw_ret # Unset =>
          /\ pw_ret = ParseAsSpecified(sidecar)
          /\ HasSpareLine(sidecar) =>
                ParseWorldFile(WithoutLastLine(sidecar)) = pw_ret
    /\ lwf_ret # Unset =>
          /\ lwf_ret = ParseAsSpecified(sidecar)
          /\ HasSpareLine(sidecar) =>
                LoadWorldFile(WithoutLastLine(sidecar)) = lwf_ret

\* a seven-line file with a blank line among its numbers was parsed to its
\* six values by both parsers
C5_Witness ==
    /\ ~sidecar.isNone
    /\ Len(sidecar.lines) = 7
    /\ \E i \in 1 .. 6 : IsBlank(sidecar.lines[i])
    /\ pw_ret # Unset /\ ~pw_ret.isNone
    /\ lwf_ret # Unset /\ ~lwf_ret.isNone
    /\ pw_ret.values[2] # pw_ret.values[3]

\* C6: world-file parameters whose linear part has determinant
\* A*E - B*D = 0 are rejected: no transform is returned for them and none is
\* attached to a loaded raster.
Determinant(v) == v[1] * v[4] - v[3] * v[2]

C6_DegenerateRejected ==
    /\ ~cgt_ret.isNone => Determinant(pw_ret.values) # 0
    /\ ~image_dataset.isNone => Determinant(WorldValues) # 0

-----------------------------------------------------------------------------
(* Claims: MapVisualizer and the CRSs *)

\* the CRS of the raster: that of the first dataset, "None" without one
RasterCRS ==
    IF image_datasets.isNone THEN "None"
    ELSE IF image_datasets.items = <<>> THEN "None"
    ELSE IF image_datasets.items[1].isNone THEN "None"
    ELSE image_datasets.items[1].crs

VectorCRS == IF mv_gdf.isNone THEN "None" ELSE mv_gdf.crs

CRSsDiffer ==
    RasterCRS # "None" /\ VectorCRS # "None" /\ RasterCRS # VectorCRS

\* C7: draw_shapefile invokes gdf.to_crs only when the raster CRS is known,
\* the vector CRS is known and the two differ; otherwise reprojection is not
\* invoked and the layer is drawn in its own coordinates.
C7_ReprojectionOnlyWhenCRSsDiffer ==
    /\ to_crs_calls > 0 => CRSsDiffer
    /\ (mv_redrawn /\ ~mv_raised /\ ~CRSsDiffer) =>
          /\ to_crs_calls = 0
          /\ HasFeatures(mv_gdf) =>
                (~plotted.isNone /\ ~plotted.reprojected
                   /\ plotted.crs = mv_gdf.crs)

\* a redraw reprojected the layer into the raster's CRS
C7_Witness ==
    /\ mv_redrawn
    /\ to_crs_calls = 1
    /\ ~plotted.isNone
    /\ plotted.reprojected
    /\ plotted.crs = "EPSG:2039"
    /\ mv_gdf.crs = "EPSG:4326"

\* C8: with a raster of known CRS and a vector layer of a different known
\* CRS, reprojection is invoked exactly once per load event; redraws between
\* loads invoke no further reprojection.
C8_ReprojectionOncePerLoad == reproj_since_load <= 1

\* C9: when reprojection fails during draw_shapefile the render is not
\* aborted: no exception leaves redraw and the layer plotted is the
\* original, unreprojected one.
C9_ReprojectionFailureFallsBack ==
    to_crs_failed =>
        /\ ~mv_raised
        /\ ~plotted.isNone
        /\ ~plotted.reprojected
        /\ plotted.crs = mv_gdf.crs
        /\ plotted.len = mv_gdf.len

\* gdf.to_crs failed in a redraw and the layer is on the axes in EPSG:4326
C9_Witness ==
    /\ mv_redrawn
    /\ to_crs_failed
    /\ to_crs_calls = 1
    /\ RasterCRS = "EPSG:2039"
    /\ ~plotted.isNone
    /\ plotted.crs = "EPSG:4326"

-----------------------------------------------------------------------------
(* Claims: MapCanvas *)

\* the vector artists that are on the axes
DisplayedShapes ==
    {shape_artists[i] : i \in {j \in 1 .. Len(shape_artists) :
                                   shape_artists[j].on_axes}}

\* C10: for a raster and a vector layer with different known CRSs, after
\* set_raster then set_shapefile and equally after set_shapefile then
\* set_raster, the displayed vector layer is the one reprojected into the
\* raster's CRS.
C10_AlignmentIndependentOfLoadOrder ==
    (/\ ~mc_raised
     /\ ~image_artist.isNone
     /\ ~mc_gdf.isNone
     /\ NeedsReprojection(raster_crs, gdf_crs)) =>
        /\ DisplayedShapes # {}
        /\ \A artist \in DisplayedShapes : artist.crs = raster_crs

-----------------------------------------------------------------------------
(* Claims: loading an image *)

\* C11: wherever load_georef_image returns, image_data and image_dataset
\* describe the same image: a dataset that is present was built from the
\* pixels that are present, never from those of another image.
C11_ImageReplacedAtomically ==
    ~image_dataset.isNone =>
        /\ ~image_data.isNone
        /\ image_dataset.pixels = image_data.of

\* a sidecar that was found but holds fewer than six parsable numeric lines
Malformed(file) ==
    /\ ~file.isNone
    /\ Cardinality({i \in 1 .. Len(file.lines) : IsFloat(file.lines[i])}) < 6

\* the last load_georef_image call read the image
ImageWasRead ==
    /\ ~lg_call.isNone
    /\ "ok" \in {lg_call.open, lg_call.fallback}

\* C12: when the sidecar of a readable image is missing or malformed,
\* load_georef_image returns success, image_data holds the new pixels and
\* image_dataset is None, so get_image_bounds() and get_image_crs() return
\* None.
C12_PixelOnlyMode ==
    (/\ ImageWasRead
     /\ \/ SidecarFor(lg_call.file_path).isNone
        \/ Malformed(SidecarFor(lg_call.file_path))) =>
        /\ lg_ret.success
        /\ image_data = Pixels(lg_call.file_path)
        /\ image_dataset.isNone
        /\ get_image_bounds.isNone
        /\ get_image_crs.isNone

\* an image whose six-line sidecar has a line that is no number was loaded
C12_Witness ==
    /\ ImageWasRead
    /\ lg_call.open = "ok"
    /\ Malformed(SidecarFor(lg_call.file_path))
    /\ Len(sidecar.lines) = 6
    /\ lg_ret.success
    /\ image_dataset.isNone

\* C13: the (success, message) result of loading an image whose sidecar is
\* malformed differs from the result of loading the same image with no
\* sidecar at all.
C13_MalformedSidecarReported ==
    (/\ ~lg_call.isNone
     /\ lg_call.open = "ok"
     /\ Malformed(SidecarFor(lg_call.file_path))) =>
        lg_ret # LoadGeorefImage(Self, lg_call.file_path, None,
                                 TRUE, TRUE, TRUE).ret

-----------------------------------------------------------------------------
(* Claims: the world file search *)

RecognisedExtensions ==
    {AppendedExtensions[k] : k \in 1 .. Len(AppendedExtensions)}

\* file is a world file of the image: same base name and a recognised
\* extension, both compared case-insensitively
IsSidecarOf(file, image_path) ==
    /\ Lower(SplitExtRoot(file)) = Lower(SplitExtRoot(image_path))
    /\ Lower(SplitExtExt(file)) \in RecognisedExtensions

SearchAsSpecified(call) ==
    /\ ~call.ret.isNone <=>
          \E i \in 1 .. Len(listing) : IsSidecarOf(listing[i], call.image_path)
    /\ ~call.ret.isNone => IsSidecarOf(call.ret.path, call.image_path)

\* C14: find_world_file and the search in _load_world_file return a path
\* exactly when the directory holds a file with the image's base name and
\* one of the extensions jgw, jgwx, jpgw, pgw, pgwx, tfw, tfwx, wld (case
\* ignored); a file with any other extension is never selected.
C14_SidecarSearch ==
    /\ fwf_ret # Unset => SearchAsSpecified(fwf_ret)
    /\ lws_ret # Unset => SearchAsSpecified(lws_ret)

-----------------------------------------------------------------------------
(* Claims: zooming *)

\* C15: zoom_to_point rejects every zoom_factor <= 0 with an error; a
\* non-positive zoom factor never yields axis limits.
C15_NonPositiveZoomRejected ==
    (~zoom_call.isNone /\ zoom_call.zoom_factor <= 0) => zoom_call.raised

\* the window of width and height r = max(500 / zoom_factor, 1.0) about
\* (x, y)
ZoomWindow(x, y, zoom_factor) ==
    LET quotient == Divide(1000, zoom_factor)
        r == IF quotient >= 2 THEN quotient ELSE 2
    IN  SetLimits(x - Half(r), x + Half(r), y - Half(r), y + Half(r))

\* C16: for every zoom_factor > 0 and point (x, y), zoom_to_point sets the
\* limits to [x - r/2, x + r/2] and [y - r/2, y + r/2] with
\* r = max(500 / zoom_factor, 1.0), whatever data is loaded.
C16_ZoomWindow ==
    [][(zoom_call' # zoom_call /\ zoom_call'.zoom_factor > 0) =>
          /\ ~zoom_call'.raised
          /\ limits' = ZoomWindow(zoom_call'.x, zoom_call'.y,
                                  zoom_call'.zoom_factor)]_vars

\* with a raster drawn, a zoom by 1000 about (0, 3) left the clamped window
\* of width and height 1.0
C16_Witness ==
    /\ ~zoom_call.isNone
    /\ zoom_call.zoom_factor = 2000
    /\ shown # <<>>
    /\ zoom_call.x = 0 /\ zoom_call.y = 6
    /\ limits = SetLimits(-1, 1, 5, 7)

-----------------------------------------------------------------------------
(* Claims: the rotation of MapCanvas *)

\* the angle an artist is drawn rotated by, in [0, 360)
EffectiveAngle(artist) ==
    IF artist.transform.kind = "rotated"
      THEN artist.transform.angle % 360 ELSE 0

\* every layer on the axes: the image and the vector artists
DisplayedLayers ==
    DisplayedShapes \cup (IF image_artist.isNone THEN {} ELSE {image_artist})

\* the centre of the raster's bounds
BoundsCentre(b) ==
    Point((b.left + b.right) \div 2, (b.bottom + b.top) \div 2)

\* C17: the rotation pivot is the raster's bounds centre when a raster is
\* loaded; with only a vector layer loaded, set_rotation(angle) rotates the
\* vector layer, about its own bounds centre.
C17_RotationPivot ==
    /\ ~image_artist.isNone =>
          /\ center = BoundsCentre(raster_bounds)
          /\ \A layer \in DisplayedLayers :
                /\ layer.transform.kind = "rotated"
                /\ layer.transform.cx = center.x
                /\ layer.transform.cy = center.y
    /\ (image_artist.isNone /\ mc_op = "set_rotation") =>
          \A layer \in DisplayedShapes :
             EffectiveAngle(layer) = rotation_deg % 360

\* C18: in every reachable state each displayed layer carries the rotation
\* rotation_deg about the current pivot: no layer is rotated by another
\* angle than another layer or than the stored angle.
C18_LayersRotateTogether ==
    \A layer \in DisplayedLayers :
       /\ EffectiveAngle(layer) = rotation_deg % 360
       /\ EffectiveAngle(layer) # 0 =>
             /\ ~center.isNone
             /\ layer.transform.cx = center.x
             /\ layer.transform.cy = center.y

\* C19: rotation never accumulates: after set_rotation the rotation of each
\* displayed layer is the angle just stored, applied to the unrotated
\* placement, and set_rotation with the angle already in force changes no
\* transform.
C19_RotationDoesNotAccumulate ==
    [][mc_op' = "set_rotation" =>
          /\ \A layer \in DisplayedLayers' :
                EffectiveAngle(layer) = rotation_deg' % 360
          /\ (mc_op = "set_rotation" /\ rotation_deg' = rotation_deg) =>
                UNCHANGED <<image_artist, shape_artists>>]_vars

-----------------------------------------------------------------------------
(* Claims: the limits of draw_image *)

\* the four corners of a w x h raster, mapped by t
MappedCorners(t, w, h) ==
    {AffineApply(t, col, row) : col \in {0, w}, row \in {0, h}}

\* lim is the envelope of the points
IsEnvelope(lim, points) ==
    /\ lim.kind = "set"
    /\ \A p \in points :
          /\ lim.xlo <= p.x /\ p.x <= lim.xhi
          /\ lim.ylo <= p.y /\ p.y <= lim.yhi
    /\ \E p \in points : p.x = lim.xlo
    /\ \E p \in points : p.x = lim.xhi
    /\ \E p \in points : p.y = lim.ylo
    /\ \E p \in points : p.y = lim.yhi

\* C20: the limits draw_image derives for a georeferenced raster of w x h
\* pixels are the min and max of x and of y over the four mapped corners
\* (0,0), (w,0), (w,h), (0,h), for any transform: all four mapped corners
\* lie inside the limits.
C20_FourCornerLimits ==
    [][(/\ ~has_axes
        /\ mv_redrawn' /\ ~mv_raised'
        /\ Len(image_datasets.items) = 1
        /\ ~image_datasets.items[1].isNone) =>
          IsEnvelope(limits',
                     MappedCorners(image_datasets.items[1].transform,
                                   image_datas.items[1].width,
                                   image_datas.items[1].height))]_vars

\* a 2 x 1 raster with a rotating transform was drawn: its limits hold the
\* corners (4, 4) and (2, -2), which the diagonal (0, 0)-(6, 2) does not span
C20_Witness ==
    /\ mv_redrawn /\ ~mv_raised
    /\ Len(image_datasets.items) = 1
    /\ ~image_datasets.items[1].isNone
    /\ image_datasets.items[1].transform = Affine(2, 2, 0, 2, -2, 0)
    /\ image_datas.items[1].width = 2
    /\ image_datas.items[1].height = 1
    /\ limits = SetLimits(0, 6, -2, 4)

-----------------------------------------------------------------------------
(* Claims: the view window of MapCanvas *)

\* the point p turned about the pivot by a multiple of 90 degrees
Turned(p, pivot, angle_deg) ==
    CASE angle_deg % 360 = 0 -> Point(p.x, p.y)
      [] angle_deg % 360 = 90 ->
            Point(pivot.x - (p.y - pivot.y), pivot.y + (p.x - pivot.x))
      [] angle_deg % 360 = 180 ->
            Point(2 * pivot.x - p.x, 2 * pivot.y - p.y)
      [] OTHER ->
            Point(pivot.x + (p.y - pivot.y), pivot.y - (p.x - pivot.x))

\* the corners of the raster bounds, turned about the bounds centre
TurnedCorners ==
    {Turned(Point(x, y), BoundsCentre(raster_bounds), rotation_deg) :
        x \in {raster_bounds.left, raster_bounds.right},
        y \in {raster_bounds.bottom, raster_bounds.top}}

\* C21: the window set by _autoscale_to_rotated_extent contains the four
\* corners of the raster bounds rotated about the pivot, with a margin on
\* each side of 5% of the rotated extent plus 1e-6; at angle 0 it is the
\* raster bounds widened by that margin.
C21_RotatedExtentWindow ==
    ~raster_bounds.isNone =>
        LET xs == {p.x : p \in TurnedCorners}
            ys == {p.y : p \in TurnedCorners}
            margin_x == (Max(xs) - Min(xs)) \div 20
            margin_y == (Max(ys) - Min(ys)) \div 20
        IN  /\ ax_limits.kind = "set"
            /\ ax_limits.eps = 1
            /\ ax_limits.xlo = Min(xs) - margin_x
            /\ ax_limits.xhi = Max(xs) + margin_x
            /\ ax_limits.ylo = Min(ys) - margin_y
            /\ ax_limits.yhi = Max(ys) + margin_y
            /\ rotation_deg = 0 =>
                  /\ ax_limits.xlo = raster_bounds.left - margin_x
                  /\ ax_limits.xhi = raster_bounds.right + margin_x
                  /\ ax_limits.ylo = raster_bounds.bottom - margin_y
                  /\ ax_limits.yhi = raster_bounds.top + margin_y

\* the 40 x 20 raster turned by 90 degrees: its footprint is 20 x 40 about
\* (20, 10), and the window is that footprint widened by 1 and by 2
C21_Witness ==
    /\ raster_bounds = Bounds(0, 0, 40, 20)
    /\ rotation_deg = 90
    /\ mc_op = "set_rotation"
    /\ ax_limits = CanvasLimits(9, 31, -12, 32)

-----------------------------------------------------------------------------
(* Claims: the image settings *)

\* the buffer among originals that a shown image was made from
OriginalOf(image, originals) ==
    CHOOSE pixels \in {originals.items[i] : i \in 1..Len(originals.items)} :
        pixels.of = image.of

\* clamp(v * c/50 + 2 * (b - 50), 0, 255), in fiftieths
ClampedValue(v, b, c) ==
    LET x == v * c + 100 * (b - 50)
    IN  Max({0, Min({255 * 50, x})})

\* the byte a channel value is rendered as under the sliders b and c
RenderedValue(v, b, c) ==
    IF b = 50 /\ c = 50 THEN v ELSE ClampedValue(v, b, c) \div 50

\* an image as a function of its original buffer and the four sliders
RenderedFrom(values, set) ==
    [values |-> [k \in 1..Len(values) |->
                    RenderedValue(values[k], set.brightness, set.contrast)],
     saturation |-> set.saturation,
     threshold |-> set.threshold]

\* C22: a change of an image setting leaves original_image_datas as it
\* was; after the redraw that follows it every georeferenced image on the
\* axes is a function of its original buffer and the four slider values
\* now in force, whatever the sliders were before; with the sliders at
\* 50, 50, 50, 0 the image shown is the original buffer exactly.
C22_SettingsFromOriginal ==
    [][/\ settings' # settings =>
              original_image_datas' = original_image_datas
       /\ (mv_redrawn' /\ ~mv_raised') =>
              \A k \in 1..Len(shown') :
                  LET original == OriginalOf(shown'[k], original_image_datas')
                  IN  /\ shown'[k].georeferenced =>
                            shown'[k].img =
                                RenderedFrom(original.values, settings')
                      /\ settings' = Settings(settings'.interpolation,
                                              50, 50, 50, 0) =>
                            shown'[k].img = Unadjusted(original.values)]_vars

\* a setter has redrawn a.jpg with the four sliders at their defaults, and
\* it is shown as its original 0, 100, 255
C22_Witness ==
    /\ mv_redrawn /\ ~mv_raised
    /\ has_axes
    /\ Len(shown) = 1
    /\ shown[1].georeferenced
    /\ shown[1].file = "a.jpg"
    /\ settings = Settings("nearest", 50, 50, 50, 0)
    /\ shown[1].img = Unadjusted(<<0, 100, 255>>)

\* C23: with the brightness and contrast sliders not both at 50, each
\* channel value v of a georeferenced image is shown as
\* clamp(v * c/50 + 2 * (b - 50), 0, 255) with its fraction dropped; with
\* both at 50 it is shown as v; every value shown lies in 0..255.
C23_BrightnessContrast ==
    (mv_redrawn /\ ~mv_raised) =>
        \A i \in 1..Len(shown) :
            shown[i].georeferenced =>
                LET original == OriginalOf(shown[i], original_image_datas)
                    b == settings.brightness
                    c == settings.contrast
                IN  \A k \in 1..Len(original.values) :
                        LET v == original.values[k]
                            out == shown[i].img.values[k]
                        IN  /\ out \in 0..255
                            /\ (b # 50 \/ c # 50) =>
                                  out = ClampedValue(v, b, c) \div 50
                            /\ (b = 50 /\ c = 50) => out = v

\* brightness 100 and contrast 100 on 0, 100, 255: 100, 300 and 610 before
\* the clamp, shown as 100, 255, 255
C23_Witness ==
    /\ mv_redrawn /\ ~mv_raised
    /\ Len(shown) = 1
    /\ shown[1].georeferenced
    /\ settings.brightness = 100
    /\ settings.contrast = 100
    /\ original_image_datas.items[1].values = <<0, 100, 255>>
    /\ shown[1].img.values = <<100, 255, 255>>

-----------------------------------------------------------------------------
(* Claims: the viewer *)

\* a collection is loaded and k is one of its indices
InRange(k) == ~gdf.isNone /\ 0 <= k /\ k < gdf.len

\* C24: set_current_index(k) and move_to_index(k) set current_index to k
\* and return True exactly when a collection is loaded and 0 <= k < len(gdf);
\* otherwise they return False and leave current_index as it was, and a
\* goto_id that was refused sets the out-of-range message and makes no call
\* on the map widget.
C24_OutOfRangeRejected ==
    [][/\ (<<dh_op, dh_arg, dh_ret, dh_pre, dh_op2, dh_pre2>>'
              # <<dh_op, dh_arg, dh_ret, dh_pre, dh_op2, dh_pre2>>
            /\ dh_op' \in {"set_current_index", "move_to_index"}) =>
              /\ (dh_ret' = "True") <=> InRange(dh_arg')
              /\ dh_ret' \in {"True", "False"}
              /\ InRange(dh_arg') => current_index' = dh_arg'
              /\ ~InRange(dh_arg') => current_index' = current_index
       /\ (vw_op'.tick # vw_op.tick /\ vw_op'.name = "goto_id"
            /\ IsInt(vw_op'.arg)) =>
              LET k == IntValue(vw_op'.arg) IN
              /\ (vw_op'.ret = "True") <=> InRange(k)
              /\ InRange(k) => current_index' = k
              /\ ~InRange(k) =>
                    /\ current_index' = current_index
                    /\ status_label' = <<"Index ", k, " is out of range">>
                    /\ widget_calls' = <<>>
                    /\ UNCHANGED <<mapVars, zoomVars>>]_vars

\* Go to ID with " 2" on a collection of two features, at index 1: refused
C24_Witness ==
    /\ vw_op.name = "goto_id"
    /\ vw_op.arg = <<" ", "2">>
    /\ vw_op.ret = "False"
    /\ ~gdf.isNone /\ gdf.len = 2
    /\ current_index = 1
    /\ vw_op.pre = 1
    /\ status_label = <<"Index ", 2, " is out of range">>
    /\ widget_calls = <<>>

\* the step is a call of record_id_for_current_point
RecordStep ==
    /\ vw_op'.tick # vw_op.tick
    /\ vw_op'.name = "record_id_for_current_point"

\* C25: record_id_for_current_point(id), on a collection with features and
\* a column named ID in any case, with a non-blank id, stores id in that
\* column at the current index i, moves current_index to (i + 1) mod n and
\* returns True, whether the table widget is an object or None.
C25_RecordStoresAndAdvances ==
    [][(/\ RecordStep
        /\ HasFeatures(gdf)
        /\ InRange(current_index)
        /\ HasColumnNamed(<<"I", "D">>, columns)
        /\ Strip(vw_op'.arg) # <<>>) =>
            /\ cells'[current_index][IdColumn(<<"I", "D">>, columns)]
                  = Cell(vw_op'.arg)
            /\ current_index' = (current_index + 1) % gdf.len
            /\ vw_op'.ret = "True"]_vars

\* C26: after a record_id_for_current_point that returned True, the index
\* named in the status message is the index the ID was stored at, also
\* when that was the last index and the navigation wrapped to 0.
C26_MessageNamesStoredIndex ==
    [][(RecordStep /\ vw_op'.ret = "True") =>
            /\ Len(status_label') = 5
            /\ status_label'[1] = "Recorded ID "
            /\ status_label'[4] = current_index
            /\ cells'[current_index][IdColumn(<<"I", "D">>, columns)]
                  = Cell(vw_op'.arg)]_vars

\* C28: current_zoom_level lies in MIN_ZOOM_LEVEL..MAX_ZOOM_LEVEL, and every
\* zoom_to_point a navigation step makes on the map widget (Next, Previous,
\* Go to ID, record ID and next) is made with current_zoom_level.
C28_ZoomWithSliderLevel ==
    /\ current_zoom_level \in MIN_ZOOM_LEVEL .. MAX_ZOOM_LEVEL
    /\ \A i \in 1 .. Len(widget_calls) :
          widget_calls[i].name = "zoom_to_point" =>
              widget_calls[i].arg.zoom_factor = 2 * current_zoom_level

\* the cells written by the handlers of the last Enter
WrittenCells == {written[i] : i \in 1 .. Len(written)}

\* C27: the two signals of one Enter in the data input write one cell of
\* the collection between them, the selected column at the index that was
\* current when Enter was pressed; the handler of editingFinished writes
\* no cell of the feature that has become current.
C27_EnterWritesOneCell ==
    /\ (vw_op.name = "return_pressed" /\ written # <<>>) =>
          written = <<[row |-> vw_op.pre, column |-> selected_column]>>
    /\ vw_op.name = "editing_finished" =>
          /\ Cardinality(WrittenCells) <= 1
          /\ \A cell \in WrittenCells :
                cell.row # current_index \/ current_index = written[1].row

-----------------------------------------------------------------------------
(* Claims: the window of MapVisualizer.redraw *)

\* C29: a redraw that finds an axes leaves the limits as they were,
\* whatever caused it (an image setting, a visibility change, new raster or
\* vector data, a new current index); a redraw that finds no axes takes the
\* limits from the layers it draws, and keeps those of a fresh axes only
\* when it draws none.
C29_RedrawKeepsWindow ==
    [][(mv_redrawn' /\ ~mv_raised') =>
          IF has_axes
            THEN limits' = limits
            ELSE (limits' = DefaultLimits)
                    <=> (shown' = <<>> /\ plotted'.isNone)]_vars

\* the window was set by zoom_to_point(0, 3, 10.0), 50 wide (in half
\* units here); a.jpg was redrawn georeferenced and the limits are still
\* that window, not the corners of a.jpg
C29_Witness ==
    /\ mv_redrawn /\ ~mv_raised
    /\ has_axes
    /\ Len(shown) = 1
    /\ shown[1].georeferenced
    /\ limits = SetLimits(-50, 50, -44, 56)

-----------------------------------------------------------------------------
(* Claims: the controls of the rotation tool *)

\* the spin box, the slider and the canvas hold the same angle
AnglesAgree ==
    /\ slider = SliderValueOf(spin)
    /\ rotation_deg = spin

\* a change of the spin box or of the slider by the user made one
\* set_rotation call
OneCallPerChange ==
    mw_op \in {"spin", "slider"} => rotation_calls = 1

\* C30: after any sequence of spin box changes, slider changes, Reset View
\* and Clear, spin box value = slider value / 10 = MapCanvas.rotation_deg,
\* and every change of the spin box or the slider by the user makes exactly
\* one MapCanvas.set_rotation call
C30_ControlsAgree ==
    /\ AnglesAgree
    /\ OneCallPerChange

====
